---- MODULE Spec2Model ----
(***************************************************************************)
(* A model of aioarxiv: the class-level sliding-window RateLimiter         *)
(* (utils/rate_limiter.py), ArxivClient.search with its first page and     *)
(* its concurrent additional pages (client/arxiv_client.py), and the       *)
(* aggregation of page results (ArxivClient.aggregate_search_results).     *)
(*                                                                         *)
(* Three specifications share the variables:                               *)
(*   SpecLimiter    callers of a function wrapped by RateLimiter.limit     *)
(*   Spec           one execution of ArxivClient.search                    *)
(*   SpecAggregate  aggregate_search_results applied to a list of results  *)
(* Each leaves the variables of the other two at their initial values.     *)
(***************************************************************************)
EXTENDS Integers, Sequences, FiniteSets, TLC

VARIABLES
    \* ---- RateLimiter (class-level state) and its callers
    calls,        \* RateLimiter._calls
    period,       \* RateLimiter._period
    timestamps,   \* RateLimiter.timestamps, a deque(maxlen=_calls)
    lock,         \* RateLimiter._lock: 0 when free, else the caller holding it
    semaphore,    \* RateLimiter._semaphore: its counter
    clock,        \* asyncio.get_event_loop().time()
    pc,           \* where each caller of the wrapper is
    wake,         \* the deadline of each caller's asyncio.sleep
    admissions,   \* history: every timestamp ever appended, in order
    admitted_by,  \* history: the caller of each of those admissions
    decorated,    \* how many functions RateLimiter.limit has decorated
    arg_calls,    \* the calls argument of the latest call of limit
    arg_period,   \* the period argument of the latest call of limit
    limit_error,  \* whether the latest call of limit raised
    func,         \* the decorated function each caller calls (0: none yet)
    outcome,      \* what the wrapper delivered to each caller
    \* ---- one execution of ArxivClient.search
    query,        \* the caller's query ("" when the text is empty)
    id_list,      \* the caller's id_list (<<>> when None or empty)
    sort_by,      \* the caller's sort_by (at most one entry: <<>> is None)
    sort_order,   \* the caller's sort_order (at most one entry: <<>> is None)
    page_size,    \* self._config.page_size
    max_results,  \* the caller's max_results (None when not given)
    start,        \* the caller's start (None when not given)
    spc,          \* where search is: init, first_inflight, gathering,
                  \* returned, raised, cancelled
    first_req,    \* the first page's request once issued (at most one entry)
    first_page,   \* first_page_result once built (at most one entry)
    first_error,  \* the stage at which the first page failed, or "none"
    first_status, \* the status of the first page's response (0: no response)
    raised,       \* the exception search raised (at most one entry)
    tasks,        \* the asyncio tasks of _create_batch_tasks, in order
    result,       \* what search returned (at most one entry)
    enable_downloader, \* self._enable_downloader
    download_calls,    \* the results handed to ArxivDownloader.batch_download
    download_out,      \* what download_search_result returned (at most one entry)
    \* ---- aggregate_search_results as a function of its argument
    results,      \* the list passed to aggregate_search_results
    agg_out,      \* the outcomes of its calls on that list, in order
    \* ---- a SessionManager constructed with a session of its caller
    session,      \* self._session: 0 for None, LentSession for the caller's
                  \* session, greater for a session the manager created
    created,      \* how many sessions the manager has created
    closed,       \* the sessions that are closed
    caller_closed,\* whether the caller has closed its own session
    rpc,          \* where each call of SessionManager.request is
    client,       \* the session each call entered with "async with"
    pg_base_start, \* base_start handed to _generate_page_params
    pg_remaining,  \* remaining_papers handed to _generate_page_params
    pg_page_size,  \* page_size handed to _generate_page_params
    pg_out,        \* what _generate_page_params returned (at most one entry)
    feed,          \* the Atom feed handed to the parsers
    papers_out,    \* what ArxivParser.parse_feed did (at most one entry)
    total_out,     \* what RootParser.build_search_result did (at most one entry)
    dl_papers,     \* the papers of the search result handed to batch_download
    dl_tasks,      \* the download of each paper: state, attempts made, PDF stored, last error
    context,       \* the DownloadTracker of the batch (at most one entry)
    dl_pc          \* where batch_download is

decorVars == <<decorated, arg_calls, arg_period, limit_error>>
limiterVars == <<calls, period, timestamps, lock, semaphore, clock, pc, wake, admissions,
                admitted_by, decorVars, func, outcome>>
searchVars == <<query, id_list, sort_by, sort_order, page_size, max_results, start, spc,
               first_req, first_page, first_error, first_status, raised, tasks, result,
               enable_downloader, download_calls, download_out>>
dlVars == <<enable_downloader, download_calls, download_out>>
aggVars == <<results, agg_out>>
sessionVars == <<session, created, closed, caller_closed, rpc, client>>

pageVars == <<pg_base_start, pg_remaining, pg_page_size, pg_out>>

parserVars == <<feed, papers_out, total_out>>

downloadVars == <<dl_papers, dl_tasks, context, dl_pc>>

vars == <<limiterVars, searchVars, aggVars, sessionVars, pageVars, parserVars, downloadVars>>

\* Optional[...] = None
None == -1

(***************************************************************************)
(* Bounds of the model.                                                    *)
(***************************************************************************)
NumCallers == 4
MaxTime == 4
MaxCalls == 2
MaxPeriod == 2
MaxPageSize == 2
MaxResults == 3
MaxStart == 1
MaxTotal == 4
MaxPages == 2
MaxPapers == 3
MaxFuncs == 2
MaxBaseStart == 3
MaxRemaining == 5
MaxChunk == 3
MaxEntries == 2
MaxLinks == 2
MaxCategories == 2
MaxDigits == 2
MaxBatch == 2

\* stop_after_attempt(3) of ArxivDownloader.download_paper
MaxAttempts == 3

Callers == 1..NumCallers

Max(a, b) == IF a >= b THEN a ELSE b
Min(a, b) == IF a <= b THEN a ELSE b

(***************************************************************************)
(* RateLimiter                                                             *)
(***************************************************************************)

\* _clean_expired: popleft while the oldest timestamp is <= now - period
RECURSIVE clean_expired(_, _)
clean_expired(ts, now) ==
    IF ts # <<>> /\ Head(ts) <= now - period
    THEN clean_expired(Tail(ts), now)
    ELSE ts

\* wait_time = cls.timestamps[0] + cls._period - now
wait_time(ts, now) == Head(ts) + period - now

NeedsWaitNoLimit(ts, now) == Len(ts) > calls /\ wait_time(ts, now) > 0

\* _wait_if_needed sleeps iff the window is full and wait_time > 0
NeedsWait(ts, now) == Len(ts) >= calls /\ wait_time(ts, now) > 0

\* deque(maxlen=_calls).append: a full deque drops its oldest entry
deque_append(ts, x) ==
    IF Len(ts) >= calls THEN Tail(ts) \o <<x>> ELSE Append(ts, x)

LockNotChecked == TRUE

\* asyncio.Lock: acquire proceeds only when the lock is not held
LockFree == lock = 0

\* asyncio.Semaphore and asyncio.Lock wake their waiters first come, first
\* served; callers are numbered in the order they called the wrapper
FirstWaiter(p, at) == \A q \in Callers : q < p => pc[q] # at

\* limit(calls, period): the class state a decoration leaves
limit(c, p) ==
    /\ calls = c
    /\ period = p
    /\ timestamps = <<>>
    /\ semaphore = c

\* no caller has called a decorated function
NoCalls ==
    /\ lock = 0
    /\ clock = 0
    /\ wake = [p \in Callers |-> 0]
    /\ admissions = <<>>
    /\ admitted_by = <<>>
    /\ func = [p \in Callers |-> 0]
    /\ outcome = [p \in Callers |-> "none"]

\* one function decorated by limit(c, p)
DecoratedOnce(c, p) ==
    /\ limit(c, p)
    /\ decorated = 1
    /\ arg_calls = c
    /\ arg_period = p
    /\ limit_error = FALSE

\* the limiter with no caller
IdleLimiter ==
    /\ DecoratedOnce(1, 1)
    /\ NoCalls
    /\ pc = [p \in Callers |-> "done"]

\* no search under way
IdleSearch ==
    /\ query = ""
    /\ id_list = <<>>
    /\ sort_by = <<>>
    /\ sort_order = <<>>
    /\ first_status = 0
    /\ raised = <<>>
    /\ enable_downloader = FALSE
    /\ download_calls = <<>>
    /\ download_out = <<>>
    /\ page_size = 1
    /\ max_results = None
    /\ start = None
    /\ spc = "idle"
    /\ first_req = <<>>
    /\ first_page = <<>>
    /\ first_error = "none"
    /\ tasks = <<>>
    /\ result = <<>>

\* no aggregation under way
IdleAggregate ==
    /\ results = <<>>
    /\ agg_out = <<>>

\* the session the caller lends to SessionManager(session=...)
LentSession == 1

\* a SessionManager holding its caller's open session, no request made
IdleSession ==
    /\ session = LentSession
    /\ created = 0
    /\ closed = {}
    /\ caller_closed = FALSE
    /\ rpc = [p \in Callers |-> "idle"]
    /\ client = [p \in Callers |-> 0]

\* no feed parsed
IdleParser ==
    /\ feed = [total |-> <<>>, entries |-> <<>>]
    /\ papers_out = <<>>
    /\ total_out = <<>>

\* no batch download under way
IdleDownload ==
    /\ dl_papers = <<>>
    /\ dl_tasks = <<>>
    /\ context = <<>>
    /\ dl_pc = "idle"

\* _generate_page_params not called
IdlePages ==
    /\ pg_base_start = 0
    /\ pg_remaining = 1
    /\ pg_page_size = 1
    /\ pg_out = <<>>

InitLimiter ==
    /\ \E c \in 1..MaxCalls, p \in 1..MaxPeriod : DecoratedOnce(c, p)
    /\ NoCalls
    /\ pc = [p \in Callers |-> "wait_sem"]
    /\ IdleSearch
    /\ IdleAggregate
    /\ IdleSession
    /\ IdlePages
    /\ IdleParser
    /\ IdleDownload

\* async with cls._semaphore: the counter is taken when positive
AcquireSemaphore(p) ==
    /\ pc[p] = "wait_sem"
    /\ FirstWaiter(p, "wait_sem")
    /\ semaphore > 0
    /\ semaphore' = semaphore - 1
    /\ \E f \in 1..decorated : func' = [func EXCEPT ![p] = f]
    /\ pc' = [pc EXCEPT ![p] = "wait_lock"]
    /\ UNCHANGED <<calls, period, timestamps, lock, clock, wake, admissions>>
    /\ UNCHANGED <<admitted_by, decorVars, outcome>>
    /\ UNCHANGED <<searchVars, aggVars, sessionVars, pageVars, parserVars, downloadVars>>

\* as Admit, the semaphore being kept by the caller that was admitted
AdmitHoldingSemaphore(p, ts, now) ==
    /\ timestamps' = deque_append(ts, now)
    /\ admissions' = Append(admissions, now)
    /\ admitted_by' = Append(admitted_by, p)
    /\ lock' = 0
    /\ semaphore' = semaphore
    /\ pc' = [pc EXCEPT ![p] = "running"]

\* the exit of "async with cls._semaphore, cls._lock" followed by
\* "return await func(*args, **kwargs)": the wrapped function starts after
\* both are released
Admit(p, ts, now) ==
    /\ timestamps' = deque_append(ts, now)
    /\ admissions' = Append(admissions, now)
    /\ admitted_by' = Append(admitted_by, p)
    /\ lock' = 0
    /\ semaphore' = semaphore + 1
    /\ pc' = [pc EXCEPT ![p] = "running"]

\* async with cls._lock: now, _clean_expired, _wait_if_needed up to its sleep,
\* and, when no sleep is needed, the append and the release
EnterCritical(p) ==
    /\ pc[p] = "wait_lock"
    /\ FirstWaiter(p, "wait_lock")
    /\ LockFree
    /\ LET now == clock
           ts == clean_expired(timestamps, now)
       IN IF NeedsWait(ts, now)
          THEN /\ timestamps' = ts
               /\ lock' = p
               /\ pc' = [pc EXCEPT ![p] = "sleeping"]
               /\ wake' = [wake EXCEPT ![p] = now + wait_time(ts, now)]
               /\ UNCHANGED <<semaphore, admissions, admitted_by>>
          ELSE /\ Admit(p, ts, now)
               /\ UNCHANGED wake
    /\ UNCHANGED <<calls, period, clock>>
    /\ UNCHANGED <<decorVars, func, outcome>>
    /\ UNCHANGED <<searchVars, aggVars, sessionVars, pageVars, parserVars, downloadVars>>

\* asyncio.sleep(wait_time) returns once the loop time has reached the deadline;
\* _wait_if_needed returns the new loop time, which the wrapper appends
WakeUp(p) ==
    /\ pc[p] = "sleeping"
    /\ clock >= wake[p]
    /\ Admit(p, timestamps, clock)
    /\ wake' = [wake EXCEPT ![p] = 0]
    /\ UNCHANGED <<calls, period, clock>>
    /\ UNCHANGED <<decorVars, func, outcome>>
    /\ UNCHANGED <<searchVars, aggVars, sessionVars, pageVars, parserVars, downloadVars>>

\* the wrapped function returns, after any duration
FuncReturn(p) ==
    /\ pc[p] = "running"
    /\ pc' = [pc EXCEPT ![p] = "done"]
    /\ outcome' = [outcome EXCEPT ![p] = "returned"]
    /\ UNCHANGED <<calls, period, timestamps, lock, semaphore, clock, wake, admissions>>
    /\ UNCHANGED <<admitted_by, decorVars, func>>
    /\ UNCHANGED <<searchVars, aggVars, sessionVars, pageVars, parserVars, downloadVars>>

\* the exception a wrapped function raises
FuncError == "ValueError"

WrapError(e) == "RateLimitError"

\* "return await func(*args, **kwargs)" stands in no try block: what func
\* raises leaves the wrapper as it is
Propagate(e) == e

\* the wrapped function raises, after any duration
FuncRaises(p) ==
    /\ pc[p] = "running"
    /\ pc' = [pc EXCEPT ![p] = "raised"]
    /\ outcome' = [outcome EXCEPT ![p] = Propagate(FuncError)]
    /\ UNCHANGED <<calls, period, timestamps, lock, semaphore, clock, wake, admissions>>
    /\ UNCHANGED <<admitted_by, decorVars, func>>
    /\ UNCHANGED <<searchVars, aggVars, sessionVars, pageVars, parserVars, downloadVars>>

\* the loop time advances
Tick ==
    /\ clock < MaxTime
    /\ clock' = clock + 1
    /\ UNCHANGED <<calls, period, timestamps, lock, semaphore, pc, wake, admissions>>
    /\ UNCHANGED <<admitted_by, decorVars, func, outcome>>
    /\ UNCHANGED <<searchVars, aggVars, sessionVars, pageVars, parserVars, downloadVars>>

NextLimiter ==
    \/ \E p \in Callers : AcquireSemaphore(p)
    \/ \E p \in Callers : EnterCritical(p)
    \/ \E p \in Callers : WakeUp(p)
    \/ \E p \in Callers : FuncReturn(p)
    \/ \E p \in Callers : FuncRaises(p)
    \/ Tick

SpecLimiter == InitLimiter /\ [][NextLimiter]_vars

\* the loop time advances, beyond MaxTime as long as a sleeping caller's
\* deadline lies ahead
TimePasses ==
    /\ \/ clock < MaxTime
       \/ \E p \in Callers : pc[p] = "sleeping" /\ clock < wake[p]
    /\ clock' = clock + 1
    /\ UNCHANGED <<calls, period, timestamps, lock, semaphore, pc, wake, admissions>>
    /\ UNCHANGED <<admitted_by, decorVars, func, outcome>>
    /\ UNCHANGED <<searchVars, aggVars, sessionVars, pageVars, parserVars, downloadVars>>

NextLimiterFair ==
    \/ \E p \in Callers : AcquireSemaphore(p)
    \/ \E p \in Callers : EnterCritical(p)
    \/ \E p \in Callers : WakeUp(p)
    \/ TimePasses

\* the event loop runs every coroutine that can run, and time advances
SpecLimiterFair ==
    /\ InitLimiter
    /\ [][NextLimiterFair]_vars
    /\ WF_vars(TimePasses)
    /\ \A p \in Callers :
          /\ WF_vars(AcquireSemaphore(p))
          /\ WF_vars(EnterCritical(p))
          /\ WF_vars(WakeUp(p))

(***************************************************************************)
(* RateLimiter.limit called while the program runs: every call of limit    *)
(* decorates one more function.  An argument is None, negative, zero or    *)
(* positive, one of the two varying at a time; the functions that get      *)
(* decorated are given equal arguments, and they return.                   *)
(***************************************************************************)

\* default_config.rate_limit_calls and default_config.rate_limit_period
rate_limit_calls == 1
rate_limit_period == 1

\* a negative argument
Negative == -2

CallsArgs == {None, Negative} \cup 0..MaxCalls
PeriodArgs == {None, Negative} \cup 0..MaxPeriod

\* "x or default": the default when x is None or 0
OrDefault(x, default) == IF x = None \/ x = 0 THEN default ELSE x

\* the class attributes before any call of limit
InitDecorations ==
    /\ calls = 0
    /\ period = 0
    /\ timestamps = <<>>
    /\ semaphore = 1
    /\ decorated = 0
    /\ arg_calls = None
    /\ arg_period = None
    /\ limit_error = FALSE
    /\ NoCalls
    /\ pc = [p \in Callers |-> "wait_sem"]
    /\ IdleSearch
    /\ IdleAggregate
    /\ IdleSession
    /\ IdlePages
    /\ IdleParser
    /\ IdleDownload

\* limit(c, p) and the decoration of a function with what it returns, at a
\* moment when no caller is inside the wrapper's "async with": _calls and
\* _period are assigned, then deque(maxlen=_calls) raises ValueError for a
\* negative _calls, else the window and the semaphore are replaced
Decorate(c, p) ==
    /\ decorated < MaxFuncs
    /\ decorated = 0 \/ (c = arg_calls /\ p = arg_period)
    /\ \A q \in Callers : pc[q] \notin {"wait_lock", "sleeping"}
    /\ arg_calls' = c
    /\ arg_period' = p
    /\ calls' = OrDefault(c, rate_limit_calls)
    /\ period' = OrDefault(p, rate_limit_period)
    /\ IF OrDefault(c, rate_limit_calls) < 0
       THEN /\ limit_error' = TRUE
            /\ UNCHANGED <<timestamps, semaphore, decorated>>
       ELSE /\ limit_error' = FALSE
            /\ timestamps' = <<>>
            /\ semaphore' = OrDefault(c, rate_limit_calls)
            /\ decorated' = decorated + 1
    /\ UNCHANGED <<lock, clock, pc, wake, admissions, admitted_by, func, outcome>>
    /\ UNCHANGED <<searchVars, aggVars, sessionVars, pageVars, parserVars, downloadVars>>

NextDecorations ==
    \/ \E p \in Callers : AcquireSemaphore(p)
    \/ \E p \in Callers : EnterCritical(p)
    \/ \E p \in Callers : WakeUp(p)
    \/ \E p \in Callers : FuncReturn(p)
    \/ Tick
    \/ \E c \in CallsArgs : Decorate(c, MaxPeriod)
    \/ \E p \in PeriodArgs : Decorate(1, p)

SpecDecorations == InitDecorations /\ [][NextDecorations]_vars

(***************************************************************************)
(* Page results and their aggregation (ArxivClient.aggregate_search_results)*)
(*                                                                         *)
(* A paper is [id, updated, title]: info.id, info.updated (an instant) and *)
(* title standing for the rest of its content.  A datetime is the instant  *)
(* it denotes: astimezone keeps the instant, and min, max and > on aware   *)
(* datetimes compare instants.                                             *)
(***************************************************************************)

Paper(i, u, t) == [id |-> i, updated |-> u, title |-> t]

SearchParams(s, m) == [start |-> s, max_results |-> m]

\* SearchParams with the fields a request is built from
SearchParamsFull(q, ids, s, m, sb, so) ==
    [query |-> q, id_list |-> ids, start |-> s, max_results |-> m,
     sort_by |-> sb, sort_order |-> so]

Metadata(st, en, mi, ps) ==
    [start_time |-> st, end_time |-> en, missing_results |-> mi, pagesize |-> ps,
     source |-> "arxiv"]

SearchResult(pp, tot, pg, hn, qp, md) ==
    [papers |-> pp, total_result |-> tot, page |-> pg, has_next |-> hn,
     query_params |-> qp, metadata |-> md]

\* the position of paper id i among the keys of the dict unique_papers
\* (0: not a key)
IndexOf(unique, i) ==
    IF \E k \in DOMAIN unique : unique[k].id = i
    THEN CHOOSE k \in DOMAIN unique : unique[k].id = i
    ELSE 0

ReplacesOnTie(paper, held) == paper.updated >= held.updated

\* keep_latest and paper.info.updated > unique_papers[paper_id].info.updated
Replaces(paper, held) == paper.updated > held.updated

PutPaperAtEnd(unique, paper) ==
    LET k == IndexOf(unique, paper.id)
    IN IF k = 0 THEN Append(unique, paper)
       ELSE IF Replaces(paper, unique[k])
            THEN Append(SelectSeq(unique, LAMBDA q : q.id # paper.id), paper)
       ELSE unique

\* unique_papers[paper_id] = paper, when the id is new or the paper replaces
\* the one held: a dict keeps the position of a key it already has
PutPaper(unique, paper) ==
    LET k == IndexOf(unique, paper.id)
    IN IF k = 0 THEN Append(unique, paper)
       ELSE IF Replaces(paper, unique[k]) THEN [unique EXCEPT ![k] = paper]
       ELSE unique

\* the inner loop of _merge_paper_lists over one page's papers
RECURSIVE MergePapers(_, _)
MergePapers(unique, papers) ==
    IF papers = <<>> THEN unique
    ELSE MergePapers(PutPaper(unique, Head(papers)), Tail(papers))

\* the outer loop of _merge_paper_lists over the pages
RECURSIVE MergeLists(_, _)
MergeLists(unique, papers_lists) ==
    IF papers_lists = <<>> THEN unique
    ELSE MergeLists(MergePapers(unique, Head(papers_lists)), Tail(papers_lists))

merge_paper_lists(papers_lists) == MergeLists(<<>>, papers_lists)

SetMax(S) == CHOOSE x \in S : \A y \in S : y <= x
SetMin(S) == CHOOSE x \in S : \A y \in S : x <= y

RECURSIVE SeqSum(_)
SeqSum(q) == IF q = <<>> THEN 0 ELSE Head(q) + SeqSum(Tail(q))

\* "x or 0" on an Optional[int]
OrZero(x) == IF x = None THEN 0 ELSE x

TotalFirst(rs) == rs[1].total_result

\* total_result=max(result.total_result for result in results)
TotalResult(rs) == SetMax({rs[k].total_result : k \in DOMAIN rs})

\* page=max(result.page for result in results)
PageOf(rs) == SetMax({rs[k].page : k \in DOMAIN rs})

\* has_next=any(result.has_next for result in results)
HasNext(rs) == \E k \in DOMAIN rs : rs[k].has_next

\* max(... if result.metadata.end_time is not None, default=None)
EndTime(rs) ==
    LET ends == {rs[k].metadata.end_time : k \in DOMAIN rs} \ {None}
    IN IF ends = {} THEN None ELSE SetMax(ends)

\* the Metadata(...) built by aggregate_search_results
AggregatedMetadata(rs) ==
    [start_time |-> SetMin({rs[k].metadata.start_time : k \in DOMAIN rs}),
     end_time |-> EndTime(rs),
     missing_results |-> SeqSum([k \in DOMAIN rs |-> rs[k].metadata.missing_results]),
     pagesize |-> SeqSum([k \in DOMAIN rs |-> rs[k].metadata.pagesize]),
     source |-> rs[1].metadata.source]

\* base_result.query_params.model_copy(update={"max_results": ..., "start": ...})
AggregatedParams(rs, merged) ==
    [rs[1].query_params EXCEPT
        !.max_results = Len(merged),
        !.start = SetMin({OrZero(rs[k].query_params.start) : k \in DOMAIN rs})]

\* Metadata declares end_time: datetime, so constructing it with None fails
MetadataValid(md) == md.end_time # None

EmptyAggregate ==
    [ok |-> TRUE,
     value |-> SearchResult(<<>>, 0, 0, FALSE, SearchParams(0, 0), Metadata(0, 0, 0, 0))]

\* if not results: raise ValueError("Results list cannot be empty")
EmptyInput == [ok |-> FALSE, error |-> "ValueError"]

\* aggregate_search_results: [ok, value] on return, [ok, error] on raise
aggregate_search_results(rs) ==
    IF rs = <<>> THEN EmptyInput
    ELSE LET merged == merge_paper_lists([k \in DOMAIN rs |-> rs[k].papers])
             md == AggregatedMetadata(rs)
         IN IF ~MetadataValid(md) THEN [ok |-> FALSE, error |-> "ValidationError"]
            ELSE [ok |-> TRUE,
                  value |-> SearchResult(merged, TotalResult(rs), PageOf(rs),
                                         HasNext(rs), AggregatedParams(rs, merged), md)]


(***************************************************************************)
(* ArxivClient.search                                                      *)
(*                                                                         *)
(* The server answers a request (start, max_results) with a total count    *)
(* and the papers at the offsets from start on; the paper at offset k has  *)
(* id k.  A response may hold fewer papers than were asked for.            *)
(***************************************************************************)

RECURSIVE SeqMaxResults(_)
SeqMaxResults(reqs) ==
    IF reqs = <<>> THEN 0 ELSE Head(reqs).max_results + SeqMaxResults(Tail(reqs))

\* the papers of a response to a request starting at offset s, k of them
ServerPapers(s, k) == [j \in 1..k |-> Paper(s + j - 1, 0, "a")]

\* the number of papers that exist at the offsets [s, s + m) when the server
\* holds total papers
Available(s, m, total) == Min(m, Max(0, total - s))

\* ArxivParser(text, response).build_search_result(params): the papers of the
\* feed and its total count, as page 1 with has_next False and fresh metadata
build_search_result(papers, total, params) ==
    SearchResult(papers, total, 1, FALSE, params, Metadata(0, 0, 0, 0))

\* _build_search_result_metadata
build_search_result_metadata(searchresult, page, batch_size, papers) ==
    [searchresult EXCEPT
        !.papers = papers,
        !.page = page,
        !.has_next = searchresult.total_result > page * batch_size,
        !.metadata = [searchresult.metadata EXCEPT !.end_time = 0,
                                                   !.pagesize = page_size]]

\* SearchParams(start=..., max_results=...) validates start: int >= 0 and
\* max_results: Optional[int] > 0
ParamsValid(s, m) == s # None /\ s >= 0 /\ (m = None \/ m > 0)

\* page_size = min(config.page_size, max_results or config.page_size)
EffectivePageSize ==
    Min(page_size, IF OrZero(max_results) = 0 THEN page_size ELSE max_results)

needs_more_by_total(first) == first.total_result > Len(first.papers)

\* needs_more of _prepare_initial_search
needs_more(first) ==
    /\ max_results # None
    /\ max_results > Len(first.papers)
    /\ first.total_result > Len(first.papers)

remaining_by_budget(first) == max_results - Len(first.papers)

\* remaining_papers of search
remaining_papers(first) ==
    Min(IF OrZero(max_results) # 0
        THEN max_results - Len(first.papers)
        ELSE first.total_result,
        first.total_result - Len(first.papers))

generate_page_params_unclipped(base_start, remaining, ps) ==
    LET total_pages == (remaining + ps - 1) \div ps
    IN [n \in 1..total_pages |->
           [start |-> base_start + (n - 1) * ps, end |-> base_start + n * ps]]

\* _generate_page_params: PageParam(start, end) per chunk
generate_page_params(base_start, remaining, ps) ==
    LET total_pages == (remaining + ps - 1) \div ps
        chunk(page) ==
            [start |-> base_start + page * ps,
             end |-> Min(base_start + page * ps + ps, base_start + remaining)]
    IN SelectSeq([n \in 1..total_pages |-> chunk(n - 1)],
                 LAMBDA c : c.end > c.start)

create_batch_tasks_unsorted(page_params) ==
    [i \in DOMAIN page_params |->
        [params |-> SearchParamsFull(query, <<>>, page_params[i].start,
                                     page_params[i].end - page_params[i].start,
                                     <<>>, <<>>),
         page |-> i + 1,
         state |-> "pending",
         requested |-> FALSE,
         attempts |-> 0,
         status |-> 0,
         error |-> <<>>,
         result |-> <<>>,
         finished |-> 0]]

\* _create_batch_tasks: one task per PageParam, page = i + 2 for the i-th (from 0),
\* with the caller's query and sort and id_list=None; a task also records how
\* many HTTP requests it issued, the status it was answered, what it raised
\* and, once it has its result, the how-manieth of the tasks it was to get one
create_batch_tasks(page_params) ==
    [i \in DOMAIN page_params |->
        [params |-> SearchParamsFull(query, <<>>, page_params[i].start,
                                     page_params[i].end - page_params[i].start,
                                     sort_by, sort_order),
         page |-> i + 1,
         state |-> "pending",
         requested |-> FALSE,
         attempts |-> 0,
         status |-> 0,
         error |-> <<>>,
         result |-> <<>>,
         finished |-> 0]]

SpeculativeTasks ==
    create_batch_tasks(generate_page_params(OrZero(start) + page_size, page_size, page_size))

\* search creates no task before _prepare_initial_search has returned
TasksBeforeFirstPage == <<>>

Finished(t) == t.state \in {"ok", "failed", "cancelled"}

\* _fetch_batch_results keeps a gathered response iff it is a SearchResult
IsValid(t) == t.state = "ok"

\* _fetch_batch_results logs a gathered response iff it is an Exception; the
\* CancelledError of a cancelled task is a BaseException and is not
IsLogged(t) == t.state = "failed"

\* the place, among the tasks that got a result, of the one that gets its
\* result next
NextFinished(ts) == 1 + Cardinality({k \in DOMAIN ts : ts[k].finished > 0})

valid_results_as_completed(ts) ==
    LET ok == {k \in DOMAIN ts : ts[k].state = "ok"}
        nth(m) == CHOOSE k \in ok :
                     Cardinality({j \in ok : ts[j].finished < ts[k].finished}) = m - 1
    IN [m \in 1..Cardinality(ok) |-> ts[nth(m)].result[1]]

valid_results_until_failure(ts) ==
    LET bad == {k \in DOMAIN ts : ts[k].state # "ok"}
        upto == IF bad = {} THEN Len(ts) ELSE SetMin(bad) - 1
        kept == SubSeq(ts, 1, upto)
    IN [k \in DOMAIN kept |-> kept[k].result[1]]

\* valid_results of _fetch_batch_results: gather returns the responses in the
\* order of the tasks, whichever completed first
valid_results(ts) ==
    LET kept == SelectSeq(ts, IsValid)
    IN [k \in DOMAIN kept |-> kept[k].result[1]]

SwallowError == "returned"

\* the statuses a response may have
Statuses == {200, 404, 503}

\* an exception: its class and, for an HTTPException, the status it carries
Exc(type, status) == [type |-> type, status |-> status]

\* raise HTTPException(response.status)
HTTPException(status) == Exc("HTTPException", status)

\* what _fetch_page and the parser can raise for a request that was issued: a
\* transport error (no response), a status other than 200, or a body that does
\* not parse (status 200)
Failures ==
    {Exc("ClientError", 0), Exc("ParserException", 200)}
        \cup {HTTPException(st) : st \in Statuses \ {200}}

RetryOnFailure == "pending"

\* an exception in _fetch_page or _fetch_and_update_result ends the task: there
\* is no retry around either
OnFailure == "failed"

\* ",".join(ids): the ids with a comma between neighbours
RECURSIVE join(_)
join(ids) ==
    IF Len(ids) <= 1 THEN ids ELSE <<Head(ids), ",">> \o join(Tail(ids))

\* _build_query_params: the dict sent as the request's query string, a function
\* of the keys it holds
build_query_params(params) ==
    [search_query |-> params.query,
     start |-> OrZero(params.start),
     max_results |-> params.max_results]
    @@ (IF params.id_list # <<>> THEN "id_list" :> join(params.id_list) ELSE <<>>)
    @@ (IF params.sort_by # <<>> THEN "sortBy" :> params.sort_by[1] ELSE <<>>)
    @@ (IF params.sort_order # <<>> THEN "sortOrder" :> params.sort_order[1] ELSE <<>>)

\* except Exception as e: logger.error(...); raise
SearchExcept == "raised"

\* a search varies its paging arguments under a plain query, or its query,
\* id_list and sort arguments under the widest paging
InitSearch ==
    /\ \/ /\ query = "q"
          /\ id_list = <<>>
          /\ sort_by = <<>>
          /\ sort_order = <<>>
          /\ page_size \in 1..MaxPageSize
          /\ max_results \in {None} \cup 0..MaxResults
          /\ start \in {None} \cup 0..MaxStart
          /\ enable_downloader = FALSE
       \/ /\ query \in {"", "q"}
          /\ id_list \in {<<>>, <<"id1">>}
          /\ sort_by \in {<<>>, <<"submittedDate">>}
          /\ sort_order \in {<<>>, <<"ascending">>}
          /\ page_size = MaxPageSize
          /\ max_results = MaxResults
          /\ start = 0
          /\ enable_downloader \in BOOLEAN
    /\ first_status = 0
    /\ raised = <<>>
    /\ download_calls = <<>>
    /\ download_out = <<>>
    /\ spc = "init"
    /\ first_req = <<>>
    /\ first_page = <<>>
    /\ first_error = "none"
    /\ tasks = <<>>
    /\ result = <<>>
    /\ IdleLimiter
    /\ IdleAggregate
    /\ IdleSession
    /\ IdlePages
    /\ IdleParser
    /\ IdleDownload

\* search -> _prepare_initial_search up to "await self._fetch_page(params)":
\* building SearchParams fails, or the first request is issued
IssueFirst ==
    /\ spc = "init"
    /\ IF ParamsValid(start, EffectivePageSize)
       THEN /\ first_req' = <<SearchParamsFull(query, id_list, start, EffectivePageSize,
                                               sort_by, sort_order)>>
            /\ tasks' = TasksBeforeFirstPage
            /\ spc' = "first_inflight"
            /\ UNCHANGED <<first_error, raised>>
       ELSE /\ first_error' = "build"
            /\ raised' = <<Exc("ValidationError", 0)>>
            /\ spc' = SearchExcept
            /\ UNCHANGED <<first_req, tasks>>
    /\ UNCHANGED <<dlVars, query, id_list, sort_by, sort_order, page_size, max_results, start, first_page, first_status, result>>
    /\ UNCHANGED <<limiterVars, aggVars, sessionVars, pageVars, parserVars, downloadVars>>

\* the first request fails in the transport, answers a status other than 200,
\* or its body does not parse
FirstPageFails(kind) ==
    /\ spc = "first_inflight"
    /\ first_error' = kind
    /\ \E exc \in Failures :
          /\ kind = (CASE exc.type = "ClientError" -> "transport"
                       [] exc.type = "HTTPException" -> "status"
                       [] OTHER -> "parse")
          /\ first_status' = exc.status
          /\ raised' = <<exc>>
    /\ spc' = SearchExcept
    /\ UNCHANGED <<dlVars, query, id_list, sort_by, sort_order, page_size, max_results, start, first_req, first_page, tasks, result>>
    /\ UNCHANGED <<limiterVars, aggVars, sessionVars, pageVars, parserVars, downloadVars>>

\* the first response arrives with status 200, a total and k papers: the rest
\* of _prepare_initial_search and search down to the creation of the tasks
FirstPageArrives ==
    /\ spc = "first_inflight"
    /\ \E total \in 0..MaxTotal :
       \E k \in 0..Available(first_req[1].start, first_req[1].max_results, total) :
       LET params == first_req[1]
           parsed == build_search_result(ServerPapers(params.start, k), total, params)
           first == build_search_result_metadata(parsed, 1, params.max_results,
                                                 parsed.papers)
       IN /\ first_page' = <<first>>
          /\ first_status' = 200
          /\ IF ~needs_more(first) \/ remaining_papers(first) <= 0
             THEN /\ result' = <<first>>
                  /\ spc' = "returned"
                  /\ UNCHANGED tasks
             ELSE LET page_params ==
                          generate_page_params(OrZero(start) + page_size,
                                               remaining_papers(first), page_size)
                  IN IF page_params = <<>>
                     THEN /\ result' = <<aggregate_search_results(<<first>>).value>>
                          /\ spc' = "returned"
                          /\ UNCHANGED tasks
                     ELSE /\ tasks' = tasks \o create_batch_tasks(page_params)
                          /\ spc' = "gathering"
                          /\ UNCHANGED result
    /\ UNCHANGED <<dlVars, query, id_list, sort_by, sort_order, page_size, max_results, start, first_req, first_error, raised>>
    /\ UNCHANGED <<limiterVars, aggVars, sessionVars, pageVars, parserVars, downloadVars>>

\* a page task runs _fetch_page: its request is issued
TaskRequest(i) ==
    /\ tasks[i].state = "pending"
    /\ tasks' = [tasks EXCEPT ![i].state = "inflight", ![i].requested = TRUE,
                              ![i].attempts = @ + 1]
    /\ UNCHANGED <<dlVars, query, id_list, sort_by, sort_order, page_size, max_results, start, spc, first_req, first_page, first_error,
                   first_status, raised, result>>
    /\ UNCHANGED <<limiterVars, aggVars, sessionVars, pageVars, parserVars, downloadVars>>

\* a page task's response arrives with status 200 and k papers:
\* _fetch_and_update_result returns its SearchResult
TaskSucceeds(i) ==
    /\ tasks[i].state = "inflight"
    /\ \E k \in {0, Available(tasks[i].params.start, tasks[i].params.max_results,
                              first_page[1].total_result)} :
       LET params == tasks[i].params
           total == first_page[1].total_result
           parsed == build_search_result(ServerPapers(params.start, k), total, params)
           page == build_search_result_metadata(parsed, tasks[i].page, page_size,
                                                parsed.papers)
       IN tasks' = [tasks EXCEPT ![i].state = "ok", ![i].status = 200,
                                 ![i].result = <<page>>,
                                 ![i].finished = NextFinished(tasks)]
    /\ UNCHANGED <<dlVars, query, id_list, sort_by, sort_order, page_size, max_results, start, spc, first_req, first_page, first_error,
                   first_status, raised, result>>
    /\ UNCHANGED <<limiterVars, aggVars, sessionVars, pageVars, parserVars, downloadVars>>

\* a page task raises an Exception (transport, status, parse)
TaskFails(i) ==
    /\ tasks[i].state = "inflight"
    /\ \E exc \in Failures :
          tasks' = [tasks EXCEPT ![i].state = OnFailure, ![i].status = exc.status,
                                 ![i].error = <<exc>>]
    /\ UNCHANGED <<dlVars, query, id_list, sort_by, sort_order, page_size, max_results, start, spc, first_req, first_page, first_error,
                   first_status, raised, result>>
    /\ UNCHANGED <<limiterVars, aggVars, sessionVars, pageVars, parserVars, downloadVars>>

\* a page task is cancelled on its own while its request is in flight
\* (task.cancel(), or a CancelledError raised inside it) and search keeps
\* waiting in gather
TaskCancelled(i) ==
    /\ spc = "gathering"
    /\ tasks[i].state = "inflight"
    /\ tasks' = [tasks EXCEPT ![i].state = "cancelled"]
    /\ UNCHANGED <<dlVars, query, id_list, sort_by, sort_order, page_size, max_results, start, spc, first_req, first_page, first_error,
                   first_status, raised, result>>
    /\ UNCHANGED <<limiterVars, aggVars, sessionVars, pageVars, parserVars, downloadVars>>

\* search is cancelled at one of its awaits: gather cancels every child that
\* is not done, and CancelledError (not an Exception) leaves search
CancelSearch ==
    /\ spc \in {"first_inflight", "gathering"}
    /\ spc' = "cancelled"
    /\ tasks' = [i \in DOMAIN tasks |->
                    IF Finished(tasks[i]) THEN tasks[i]
                    ELSE [tasks[i] EXCEPT !.state = "cancelled"]]
    /\ UNCHANGED <<dlVars, query, id_list, sort_by, sort_order, page_size, max_results, start, first_req, first_page, first_error,
                   first_status, raised, result>>
    /\ UNCHANGED <<limiterVars, aggVars, sessionVars, pageVars, parserVars, downloadVars>>

\* asyncio.gather(*tasks, return_exceptions=True) completes once every task is
\* done; _fetch_batch_results filters, search aggregates and returns
GatherReturns ==
    /\ spc = "gathering"
    /\ \A i \in DOMAIN tasks : Finished(tasks[i])
    /\ LET out == aggregate_search_results(<<first_page[1]>> \o valid_results(tasks))
       IN IF out.ok
          THEN /\ result' = <<out.value>>
               /\ spc' = "returned"
               /\ UNCHANGED raised
          ELSE /\ spc' = SearchExcept
               /\ raised' = <<Exc(out.error, 0)>>
               /\ UNCHANGED result
    /\ UNCHANGED <<dlVars, query, id_list, sort_by, sort_order, page_size, max_results, start, first_req, first_page, first_error,
                   first_status, tasks>>
    /\ UNCHANGED <<limiterVars, aggVars, sessionVars, pageVars, parserVars, downloadVars>>

\* the downloader property: None unless the client was built with
\* enable_downloader
downloader == IF enable_downloader THEN <<"ArxivDownloader">> ELSE <<>>

\* download_search_result(result) on the result search returned: the batch
\* download of the downloader when there is one, else None
DownloadSearchResult ==
    /\ spc = "returned"
    /\ download_out = <<>>
    /\ IF downloader # <<>>
       THEN /\ download_calls' = Append(download_calls, result[1])
            /\ download_out' = <<"DownloadTracker">>
       ELSE /\ download_out' = <<"None">>
            /\ UNCHANGED download_calls
    /\ UNCHANGED <<enable_downloader, query, id_list, sort_by, sort_order, page_size,
                   max_results, start, spc, first_req, first_page, first_error,
                   first_status, raised, tasks, result>>
    /\ UNCHANGED <<limiterVars, aggVars, sessionVars, pageVars, parserVars, downloadVars>>

NextSearch ==
    \/ IssueFirst
    \/ \E kind \in {"transport", "status", "parse"} : FirstPageFails(kind)
    \/ FirstPageArrives
    \/ \E i \in DOMAIN tasks : TaskRequest(i)
    \/ \E i \in DOMAIN tasks : TaskSucceeds(i)
    \/ \E i \in DOMAIN tasks : TaskFails(i)
    \/ \E i \in DOMAIN tasks : TaskCancelled(i)
    \/ CancelSearch
    \/ GatherReturns
    \/ DownloadSearchResult

Spec == InitSearch /\ [][NextSearch]_vars

\* the requests search has issued, the first page's first
IssuedRequests ==
    first_req \o
    LET sent == SelectSeq(tasks, LAMBDA t : t.requested)
    IN [k \in DOMAIN sent |-> sent[k].params]

\* the query strings of those requests
OutboundRequests ==
    [k \in DOMAIN IssuedRequests |-> build_query_params(IssuedRequests[k])]


(***************************************************************************)
(* aggregate_search_results applied to a list of page results              *)
(*                                                                         *)
(* The lists vary the papers of the pages, or the scalar fields and query  *)
(* parameters of the pages, or their metadata, the rest held fixed.        *)
(***************************************************************************)

PaperIds == 1..2
Stamps == 1..2
Titles == {"a", "b"}
Totals == 0..1
PageNumbers == 1..2
Starts == {None, 0, 1}
Instants == 0..2
Counts == 0..1

Papers == {Paper(i, u, t) : i \in PaperIds, u \in Stamps, t \in Titles}

\* the sequences over S of length at most n
SeqsUpTo(S, n) == UNION {[1..m -> S] : m \in 0..n}

RECURSIVE Flatten(_)
Flatten(lists) == IF lists = <<>> THEN <<>> ELSE Head(lists) \o Flatten(Tail(lists))

\* the ways to cut n papers into 1..MaxPages consecutive pages: the index of
\* the last paper of each page
Cuts(n) ==
    {c \in SeqsUpTo(0..n, MaxPages) :
        /\ Len(c) >= 1
        /\ c[Len(c)] = n
        /\ \A k \in 1..(Len(c) - 1) : c[k] <= c[k + 1]}

\* the pages that the cuts c make of the papers flat
Split(flat, c) ==
    [k \in DOMAIN c |-> SubSeq(flat, (IF k = 1 THEN 0 ELSE c[k - 1]) + 1, c[k])]

\* a list of pages holding the papers flat, cut at c, the other fields fixed
PaperInput(flat, c) ==
    [k \in DOMAIN c |->
        SearchResult(Split(flat, c)[k], 1, 1, FALSE, SearchParams(0, 1),
                     Metadata(0, 0, 0, 0))]

ScalarInputs ==
    SeqsUpTo({SearchResult(<<>>, tot, pg, hn, SearchParams(st, 1), Metadata(0, 0, 0, 0)) :
                tot \in Totals, pg \in PageNumbers, hn \in BOOLEAN, st \in Starts},
             MaxPages)

\* Metadata declares start_time and end_time as datetime: both are instants
MetadataInputs ==
    SeqsUpTo({SearchResult(<<>>, 1, 1, FALSE, SearchParams(0, 1), Metadata(st, en, mi, ps)) :
                st \in Instants, en \in Instants, mi \in Counts, ps \in Counts},
             MaxPages)

\* page results whose end_time may have been set to None past the validation
\* of Metadata (model_copy(update=...), attribute assignment)
NullableEndInputs ==
    SeqsUpTo({SearchResult(<<>>, 1, 1, FALSE, SearchParams(0, 1), Metadata(st, en, 0, 0)) :
                st \in Instants, en \in Instants \cup {None}},
             MaxPages)

\* lists of at most MaxPages pages, holding at most MaxPapers papers in all
\* where the papers vary
InitAggregate ==
    /\ \/ \E flat \in SeqsUpTo(Papers, MaxPapers) :
             \E c \in Cuts(Len(flat)) : results = PaperInput(flat, c)
       \/ results \in ScalarInputs
       \/ results \in MetadataInputs
    /\ agg_out = <<>>
    /\ IdleLimiter
    /\ IdleSearch
    /\ IdleSession
    /\ IdlePages
    /\ IdleParser
    /\ IdleDownload

InputsUpdatedInPlace(rs) ==
    IF rs = <<>> THEN rs
    ELSE [rs EXCEPT ![1].query_params =
             AggregatedParams(rs, merge_paper_lists([k \in DOMAIN rs |-> rs[k].papers]))]

\* the argument after a call: aggregate_search_results reads its inputs into
\* new objects (a list comprehension, a new dict, Metadata(...), model_copy,
\* SearchResult(...)) and assigns to no attribute of them
InputsAfter(rs) == rs

\* self.aggregate_search_results(results), called up to twice on the same list
Aggregate ==
    /\ Len(agg_out) < 2
    /\ agg_out' = Append(agg_out, aggregate_search_results(results))
    /\ results' = InputsAfter(results)
    /\ UNCHANGED <<limiterVars, searchVars, sessionVars, pageVars, parserVars, downloadVars>>

NextAggregate == Aggregate

SpecAggregate == InitAggregate /\ [][NextAggregate]_vars

InitNullableEnd ==
    /\ results \in NullableEndInputs
    /\ agg_out = <<>>
    /\ IdleLimiter
    /\ IdleSearch
    /\ IdleSession
    /\ IdlePages
    /\ IdleParser
    /\ IdleDownload

SpecNullableEnd == InitNullableEnd /\ [][NextAggregate]_vars


(***************************************************************************)
(* SessionManager: calls of request on a manager that was given a session  *)
(* by its caller, the manager's close, and the caller closing its session  *)
(***************************************************************************)

\* the session property: the held session, or a new ClientSession when none is
\* held or the held one is closed
SessionProperty ==
    IF session = 0 \/ session \in closed
    THEN LentSession + created + 1
    ELSE session

InitSession ==
    /\ IdleSession
    /\ IdleLimiter
    /\ IdleSearch
    /\ IdleAggregate
    /\ IdlePages
    /\ IdleParser
    /\ IdleDownload

\* request up to "async with await self.session as client": the session is
\* fetched or created, and entered
RequestBegin(p) ==
    /\ rpc[p] = "idle"
    /\ session' = SessionProperty
    /\ created' = IF SessionProperty = session THEN created ELSE created + 1
    /\ client' = [client EXCEPT ![p] = SessionProperty]
    /\ rpc' = [rpc EXCEPT ![p] = "in_request"]
    /\ UNCHANGED <<closed, caller_closed>>
    /\ UNCHANGED <<limiterVars, searchVars, aggVars, pageVars, parserVars, downloadVars>>

\* client.request(...) completes and the "async with" block is left:
\* ClientSession.__aexit__ closes the session that was entered
RequestEnd(p) ==
    /\ rpc[p] = "in_request"
    /\ closed' = closed \cup {client[p]}
    /\ rpc' = [rpc EXCEPT ![p] = "done"]
    /\ UNCHANGED <<session, created, caller_closed, client>>
    /\ UNCHANGED <<limiterVars, searchVars, aggVars, pageVars, parserVars, downloadVars>>

\* SessionManager.close: closes the held session when it is open, and drops it
Close ==
    /\ session # 0
    /\ session \notin closed
    /\ closed' = closed \cup {session}
    /\ session' = 0
    /\ UNCHANGED <<created, caller_closed, rpc, client>>
    /\ UNCHANGED <<limiterVars, searchVars, aggVars, pageVars, parserVars, downloadVars>>

\* the caller closes the session it lent, while it is still open
CallerCloses ==
    /\ LentSession \notin closed
    /\ closed' = closed \cup {LentSession}
    /\ caller_closed' = TRUE
    /\ UNCHANGED <<session, created, rpc, client>>
    /\ UNCHANGED <<limiterVars, searchVars, aggVars, pageVars, parserVars, downloadVars>>

NextSession ==
    \/ \E p \in Callers : RequestBegin(p)
    \/ \E p \in Callers : RequestEnd(p)
    \/ Close
    \/ CallerCloses

SpecSession == InitSession /\ [][NextSession]_vars


(***************************************************************************)
(* SessionManager.request under its decorator @RateLimiter.limit(): the    *)
(* wrapper admits the caller, then the body of request runs                *)
(***************************************************************************)

\* the concurrent calls of request
MaxRequests == 3
Requesters == 1..MaxRequests

\* the calls of request are made together (asyncio.gather) on a manager whose
\* limiter was configured by one decoration
InitRequest ==
    /\ \E c \in 1..MaxCalls, p \in 1..MaxPeriod : DecoratedOnce(c, p)
    /\ NoCalls
    /\ pc = [p \in Callers |-> IF p \in Requesters THEN "wait_sem" ELSE "done"]
    /\ IdleSearch
    /\ IdleAggregate
    /\ IdleSession
    /\ IdlePages
    /\ IdleParser
    /\ IdleDownload

\* as SendRequest, for a request that is not behind the wrapper
SendRequestUnlimited(p) ==
    RequestBegin(p)

\* the body of request, entered by "return await func(*args, **kwargs)" once
\* the wrapper has admitted the caller: the session is obtained and
\* client.request is called on it
SendRequest(p) ==
    /\ pc[p] = "running"
    /\ RequestBegin(p)

\* client.request returns its response, the session is left and request returns
ReceiveResponse(p) ==
    /\ pc[p] = "running"
    /\ rpc[p] = "in_request"
    /\ closed' = closed \cup {client[p]}
    /\ rpc' = [rpc EXCEPT ![p] = "done"]
    /\ pc' = [pc EXCEPT ![p] = "done"]
    /\ outcome' = [outcome EXCEPT ![p] = "returned"]
    /\ UNCHANGED <<session, created, caller_closed, client>>
    /\ UNCHANGED <<calls, period, timestamps, lock, semaphore, clock, wake, admissions>>
    /\ UNCHANGED <<admitted_by, decorVars, func>>
    /\ UNCHANGED <<searchVars, aggVars, pageVars, parserVars, downloadVars>>

NextRequest ==
    \/ \E p \in Callers : AcquireSemaphore(p)
    \/ \E p \in Callers : EnterCritical(p)
    \/ \E p \in Callers : WakeUp(p)
    \/ \E p \in Callers : SendRequest(p)
    \/ \E p \in Callers : ReceiveResponse(p)
    \/ Tick

SpecRequest == InitRequest /\ [][NextRequest]_vars


(***************************************************************************)
(* Claims about the RateLimiter (checked under SpecLimiter)                *)
(***************************************************************************)

InFlight == {p \in Callers : pc[p] = "running"}
InSection == {p \in Callers : pc[p] = "sleeping"}

\* C1: at most `calls` admissions fall inside any rolling window of length
\* `period`: the admission that follows `calls` admissions is at least `period`
\* after the oldest of them.
C1_RollingWindow ==
    \A i \in DOMAIN admissions :
        (i + calls) \in DOMAIN admissions
            => admissions[i + calls] >= admissions[i] + period

\* `calls` admissions were made within one period and a further caller has been
\* admitted after them
C1_Witness ==
    /\ Len(admissions) > calls
    /\ admissions[calls] < admissions[1] + period

\* C2: at no time are more than `calls` executions of the wrapped function in
\* flight simultaneously.
C2_InFlightBound == Cardinality(InFlight) <= calls

\* C3: prune, count check, wait and append form one critical section: a caller
\* that has decided to wait holds the lock, is the only caller inside, and until
\* its own append no other caller prunes or appends.
C3_CriticalSection ==
    [][ /\ Cardinality({p \in Callers : pc'[p] = "sleeping"}) <= 1
        /\ \A p \in Callers :
              /\ pc'[p] = "sleeping" => lock' = p
              /\ (pc[p] = "sleeping" /\ pc'[p] = "sleeping")
                    => (timestamps' = timestamps /\ admissions' = admissions)
              /\ (pc[p] = "sleeping" /\ pc'[p] # "sleeping")
                    => admissions' = Append(admissions, clock)
      ]_vars

\* a caller waits for a slot inside the section while another caller, holding
\* the semaphore, waits for the lock after the window has slid
C3_Witness ==
    \E p, q \in Callers :
        /\ pc[p] = "sleeping"
        /\ pc[q] = "wait_lock"
        /\ clock >= wake[p]

(***************************************************************************)
(* Claims about ArxivClient.search (checked under Spec)                    *)
(***************************************************************************)

IdSet(papers) == {papers[k].id : k \in DOMAIN papers}

OkTasks == {i \in DOMAIN tasks : tasks[i].state = "ok"}

\* C4: the first-page request has completed and its response has been parsed
\* before any additional-page request is issued; none starts before or while
\* the first-page request is in flight.
C4_FirstPageFirst ==
    \A i \in DOMAIN tasks :
        tasks[i].requested
            => /\ first_req # <<>>
               /\ first_page # <<>>
               /\ spc \notin {"init", "first_inflight"}

\* an additional-page request is in flight
C4_Witness == \E i \in DOMAIN tasks : tasks[i].requested /\ tasks[i].state = "inflight"

\* C5: if the first-page fetch fails (query building, transport, status, parse)
\* search raises, returns no result and issues no additional-page request.
C5_FirstPageFatal ==
    first_error # "none"
        => /\ spc = "raised"
           /\ result = <<>>
           /\ first_page = <<>>
           /\ \A i \in DOMAIN tasks : ~tasks[i].requested
           /\ Len(IssuedRequests) <= 1

\* the first request was issued and its response had a status other than 200
C5_Witness == first_error = "status" /\ first_req # <<>>

\* C6: when the first page succeeds, search does not raise whichever additional
\* pages fail: it returns the aggregate of the first page and exactly the
\* additional pages that succeeded, and no failed page contributes a paper.
C6_PartialFailure ==
    /\ first_page # <<>> => spc # "raised"
    /\ (spc = "returned" /\ tasks # <<>>)
          => /\ result # <<>>
             /\ IdSet(result[1].papers)
                   = IdSet(first_page[1].papers)
                     \cup UNION {IdSet(tasks[i].result[1].papers) : i \in OkTasks}
             /\ Len(result[1].papers)
                   = Len(first_page[1].papers)
                     + SeqSum([i \in DOMAIN tasks |->
                                  IF i \in OkTasks THEN Len(tasks[i].result[1].papers)
                                  ELSE 0])
             /\ \A i \in DOMAIN tasks :
                   tasks[i].state = "failed"
                      => \A id \in IdSet(result[1].papers) :
                            id < tasks[i].params.start
                            \/ id >= tasks[i].params.start + tasks[i].params.max_results

\* search returned after one additional page failed and a later one succeeded
\* with papers
C6_Witness ==
    /\ spc = "returned"
    /\ \E i, j \in DOMAIN tasks :
          /\ i < j
          /\ tasks[i].state = "failed"
          /\ tasks[j].state = "ok"
          /\ tasks[j].result[1].papers # <<>>

\* C7: a cancelled search leaves no page task in flight and returns no
\* aggregate, and a page task that ended in cancellation never precedes a
\* returned aggregate, which would silently omit its page.
C7_NoSilentTruncation ==
    /\ spc = "cancelled"
          => (result = <<>> /\ \A i \in DOMAIN tasks : Finished(tasks[i]))
    /\ spc = "returned"
          => \A i \in DOMAIN tasks :
                /\ tasks[i].state # "cancelled"
                /\ IsValid(tasks[i]) \/ IsLogged(tasks[i])

\* C8: with max_results set, the max_results of all requests search issues
\* (first page and additional chunks) sum to at most the caller's max_results.
C8_RequestBudget ==
    (max_results # None /\ max_results > 0)
        => SeqMaxResults(IssuedRequests) <= max_results

(***************************************************************************)
(* Claims about aggregate_search_results (checked under SpecAggregate)     *)
(***************************************************************************)

\* the papers of the input pages, in list order and page order
InputPapers == Flatten([k \in DOMAIN results |-> results[k].papers])

\* the occurrence of id i that has the greatest updated, the first of them
FirstLatest(all, i) ==
    CHOOSE k \in DOMAIN all :
        /\ all[k].id = i
        /\ \A j \in DOMAIN all :
              all[j].id = i
                 => \/ all[j].updated < all[k].updated
                    \/ (all[j].updated = all[k].updated /\ j >= k)

Aggregated == agg_out # <<>> /\ agg_out[1].ok

\* C9: for a non-empty list, the aggregate's papers hold no id twice, hold
\* every id of the inputs, and hold for each id the occurrence with the greatest
\* updated, the first such occurrence in input order on a tie.
C9_Deduplication ==
    (agg_out # <<>> /\ results # <<>>)
        => /\ agg_out[1].ok
           /\ LET out == agg_out[1].value.papers
              IN /\ \A a, b \in DOMAIN out : out[a].id = out[b].id => a = b
                 /\ IdSet(out) = IdSet(InputPapers)
                 /\ \A a \in DOMAIN out :
                       out[a] = InputPapers[FirstLatest(InputPapers, out[a].id)]

\* the inputs hold one id three times over two pages: twice with the greatest
\* updated and different content, once with an older updated
C9_Witness ==
    /\ Aggregated
    /\ Len(results) > 1
    /\ \E i, j, k \in DOMAIN InputPapers :
          /\ i < j
          /\ k \notin {i, j}
          /\ InputPapers[i].id = InputPapers[j].id
          /\ InputPapers[k].id = InputPapers[i].id
          /\ InputPapers[i].updated = InputPapers[j].updated
          /\ InputPapers[i].title # InputPapers[j].title
          /\ InputPapers[k].updated < InputPapers[i].updated

\* where id i occurs first among the papers
FirstIndex(all, i) == SetMin({k \in DOMAIN all : all[k].id = i})

\* C33: the aggregate's papers stand in the order in which their ids occur
\* first in the inputs, scanned in list order and page order; a paper that
\* replaces an earlier duplicate stands where the id occurred first.
C33_FirstOccurrenceOrder ==
    (agg_out # <<>> /\ results # <<>>)
        => /\ agg_out[1].ok
           /\ LET out == agg_out[1].value.papers
              IN /\ Len(out) = Cardinality(IdSet(InputPapers))
                 /\ \A a, b \in DOMAIN out :
                       a < b => FirstIndex(InputPapers, out[a].id)
                                  < FirstIndex(InputPapers, out[b].id)

\* an id occurs, then another id, then the first id again with a later
\* updated: the later paper is in the aggregate, in the first position
C33_Witness ==
    /\ Aggregated
    /\ Len(InputPapers) = 3
    /\ InputPapers[1].id = InputPapers[3].id
    /\ InputPapers[1].id # InputPapers[2].id
    /\ InputPapers[3].updated > InputPapers[1].updated
    /\ agg_out[1].value.papers[1] = InputPapers[3]

\* C10: for a non-empty list, the aggregate's total_result is the greatest
\* input total_result, its page the greatest input page, and its has_next holds
\* iff some input's has_next does.
C10_ScalarFields ==
    (Aggregated /\ results # <<>>)
        => LET v == agg_out[1].value
           IN /\ \E k \in DOMAIN results : v.total_result = results[k].total_result
              /\ \A k \in DOMAIN results : v.total_result >= results[k].total_result
              /\ \E k \in DOMAIN results : v.page = results[k].page
              /\ \A k \in DOMAIN results : v.page >= results[k].page
              /\ v.has_next = TRUE <=> (\E k \in DOMAIN results : results[k].has_next)
              /\ v.has_next \in BOOLEAN

\* two pages were aggregated where the first has the smaller total and the
\* greater page number, and only one has has_next set
C10_Witness ==
    /\ Aggregated
    /\ Len(results) = 2
    /\ results[1].total_result < results[2].total_result
    /\ results[1].page > results[2].page
    /\ results[1].has_next # results[2].has_next

(***************************************************************************)
(* Further claims about aggregate_search_results                           *)
(***************************************************************************)

AllEnds == {results[k].metadata.end_time : k \in DOMAIN results}

\* C11: for a non-empty list the aggregation succeeds and its metadata has the
\* earliest start_time, the latest non-null end_time (null when every input
\* end_time is null), the sums of missing_results and of pagesize, and the
\* first input's source.
C11_AggregateMetadata ==
    (agg_out # <<>> /\ results # <<>>)
        => /\ agg_out[1].ok
           /\ LET md == agg_out[1].value.metadata
              IN /\ \A k \in DOMAIN results : md.start_time <= results[k].metadata.start_time
                 /\ \E k \in DOMAIN results : md.start_time = results[k].metadata.start_time
                 /\ md.end_time \in AllEnds
                 /\ \A e \in AllEnds \ {None} : md.end_time # None /\ md.end_time >= e
                 /\ md.missing_results
                       = SeqSum([k \in DOMAIN results |-> results[k].metadata.missing_results])
                 /\ md.pagesize
                       = SeqSum([k \in DOMAIN results |-> results[k].metadata.pagesize])
                 /\ md.source = results[1].metadata.source

\* C12: aggregating an empty list raises and yields no aggregate.
C12_EmptyInput ==
    results = <<>>
        => \A k \in DOMAIN agg_out : ~agg_out[k].ok /\ agg_out[k].error = "ValueError"

\* aggregate_search_results was called on the empty list
C12_Witness == results = <<>> /\ agg_out # <<>>

Carries(req, key) == key \in DOMAIN req

\* C14: every request sent carries exactly one of search_query and id_list, and
\* a search given both a query text and an id list, or neither, sends none.
C14_QueryXorIds ==
    /\ \A k \in DOMAIN OutboundRequests :
          Carries(OutboundRequests[k], "search_query")
             # Carries(OutboundRequests[k], "id_list")
    /\ ((query # "") = (id_list # <<>>)) => IssuedRequests = <<>>

\* C15: every request sent has start >= 0 and 0 < max_results <= the configured
\* page size, and carries the caller's sortBy and sortOrder when given.
C15_RequestShape ==
    \A k \in DOMAIN OutboundRequests :
        LET req == OutboundRequests[k]
        IN /\ req.start >= 0
           /\ req.max_results > 0
           /\ req.max_results <= page_size
           /\ sort_by # <<>>
                 => (Carries(req, "sortBy") /\ req.sortBy = sort_by[1])
           /\ sort_order # <<>>
                 => (Carries(req, "sortOrder") /\ req.sortOrder = sort_order[1])

\* a search with a sort criterion and a sort order has sent the first request
\* and two additional ones, the last one shorter than a page
C15_Witness ==
    /\ sort_by # <<>>
    /\ sort_order # <<>>
    /\ Len(OutboundRequests) = 3
    /\ OutboundRequests[3].start > OutboundRequests[2].start
    /\ OutboundRequests[3].max_results < page_size

\* C16: a page whose response has a status other than 200 fails with an
\* HTTPException carrying that status, and no page is requested more than once
\* in a search.
C16_StatusFatalNoRetry ==
    /\ first_status \notin {0, 200}
          => (spc = "raised" /\ raised = <<HTTPException(first_status)>>)
    /\ Len(first_req) <= 1
    /\ \A i \in DOMAIN tasks :
          /\ tasks[i].attempts <= 1
          /\ tasks[i].status \notin {0, 200}
                => /\ tasks[i].state = "failed"
                   /\ tasks[i].error = <<HTTPException(tasks[i].status)>>
                   /\ tasks[i].result = <<>>

\* one additional page was answered 404 and another 503, each requested once
C16_Witness ==
    \E i, j \in DOMAIN tasks :
        /\ tasks[i].status = 404
        /\ tasks[j].status = 503
        /\ tasks[i].attempts = 1
        /\ spc = "returned"

(***************************************************************************)
(* Claims about the SessionManager (checked under SpecSession)             *)
(***************************************************************************)

\* C17: the session lent by the caller is closed only by the caller: whatever
\* requests were made through the manager, it is open unless the caller closed
\* it.
C17_LentSessionStaysOpen == LentSession \in closed => caller_closed

\* the callers whose request has called client.request
TransportCalls == {p \in Callers : rpc[p] # "idle"}

\* the admissions of caller p
AdmissionsOf(p) == {k \in DOMAIN admitted_by : admitted_by[k] = p}

\* C35: every transport call of request follows an admission of its own, with
\* one timestamp recorded for it; the transport calls started never exceed the
\* admissions; and once all the concurrent requests have returned there is one
\* transport call for each of them.
C35_TransportAfterAdmission ==
    /\ \A p \in TransportCalls : Cardinality(AdmissionsOf(p)) = 1
    /\ Cardinality(TransportCalls) <= Len(admissions)
    /\ (\A p \in Callers : pc[p] = "done")
          => /\ TransportCalls = Requesters
             /\ Len(admissions) = MaxRequests

\* all the concurrent requests have returned, a later one on a session created
\* after an earlier one had returned
C35_Witness ==
    /\ \A p \in Callers : pc[p] = "done"
    /\ TransportCalls = Requesters
    /\ Len(admissions) = MaxRequests
    /\ created > 0

\* C37: the completion of a request never closes a session on which another
\* request, which obtained the same session, is still in flight.
C37_SessionOpenWhileInFlight ==
    [][ \A p, q \in Callers :
            (p # q /\ rpc[p] = "in_request" /\ rpc'[p] = "done"
                   /\ rpc'[q] = "in_request")
                => client[q] \notin (closed' \ closed) ]_vars

(***************************************************************************)
(* Claims about the configuration and the sharing of the RateLimiter       *)
(* (checked under SpecDecorations) and about a wrapped function that       *)
(* raises (checked under SpecLimiter)                                      *)
(***************************************************************************)

NonPositive(x) == x # None /\ x <= 0

\* C18: a call of limit with calls <= 0 or period <= 0 raises, such a value is
\* never replaced by another one, and no call is admitted while calls or period
\* is not positive.
C18_InvalidConfiguration ==
    [][ /\ (NonPositive(arg_calls') \/ NonPositive(arg_period')) => limit_error'
        /\ (NonPositive(arg_calls') /\ ~limit_error') => calls' = arg_calls'
        /\ (NonPositive(arg_period') /\ ~limit_error') => period' = arg_period'
        /\ admissions' # admissions => (calls > 0 /\ period > 0)
      ]_vars

\* the admissions that fall in the period starting with the i-th
InWindow(i) ==
    {j \in DOMAIN admissions : j >= i /\ admissions[j] < admissions[i] + period}

\* C19: the decorated functions share one window: over all of them together,
\* at most `calls` admissions fall in any rolling period.
C19_SharedWindow ==
    \A i \in DOMAIN admissions : Cardinality(InWindow(i)) <= calls

Holders == {q \in Callers : pc[q] \in {"wait_lock", "sleeping"}}

\* C20: when the wrapped function raises, its caller receives that exception,
\* exactly one timestamp was recorded for the call, and the call holds neither
\* the lock nor a unit of the semaphore.
C20_RaisePropagates ==
    \A p \in Callers :
        pc[p] = "raised"
            => /\ outcome[p] = FuncError
               /\ Cardinality(AdmissionsOf(p)) = 1
               /\ lock # p
               /\ semaphore = calls - Cardinality(Holders)

\* under calls = 1 a call raised and a later caller was admitted after it
C20_Witness ==
    /\ calls = 1
    /\ \E p, q \in Callers :
          /\ pc[p] = "raised"
          /\ pc[q] = "running"
          /\ \E i \in AdmissionsOf(p), j \in AdmissionsOf(q) : i < j

(***************************************************************************)
(* ArxivClient._generate_page_params as a function of its arguments:       *)
(* base_start >= 0, remaining_papers >= 1, page_size >= 1                  *)
(***************************************************************************)

InitPages ==
    /\ IdleLimiter
    /\ IdleSearch
    /\ IdleAggregate
    /\ IdleSession
    /\ IdleParser
    /\ IdleDownload
    /\ pg_base_start \in 0..MaxBaseStart
    /\ pg_remaining \in 1..MaxRemaining
    /\ pg_page_size \in 1..MaxChunk
    /\ pg_out = <<>>

GeneratePageParams ==
    /\ pg_out = <<>>
    /\ pg_out' = <<generate_page_params(pg_base_start, pg_remaining, pg_page_size)>>
    /\ UNCHANGED <<pg_base_start, pg_remaining, pg_page_size>>
    /\ UNCHANGED <<limiterVars, searchVars, aggVars, sessionVars, parserVars, downloadVars>>

NextPages == GeneratePageParams

SpecPages == InitPages /\ [][NextPages]_vars

\* the offsets a chunk asks for
Offsets(chunk) == chunk.start..(chunk.end - 1)

\* C28: the chunks are non-empty and at most page_size long, each starts where
\* the one before it ends, together they cover exactly
\* [base_start, base_start + remaining_papers), and all but the last are
\* page_size long.
C28_PageParams ==
    pg_out # <<>>
        => LET pp == pg_out[1]
           IN /\ Len(pp) >= 1
              /\ \A i \in DOMAIN pp :
                    /\ pp[i].start < pp[i].end
                    /\ pp[i].end - pp[i].start <= pg_page_size
                    /\ i < Len(pp) => pp[i].end - pp[i].start = pg_page_size
                    /\ i < Len(pp) => pp[i + 1].start = pp[i].end
              /\ \A i, j \in DOMAIN pp :
                    i # j => Offsets(pp[i]) \cap Offsets(pp[j]) = {}
              /\ UNION {Offsets(pp[i]) : i \in DOMAIN pp}
                    = pg_base_start..(pg_base_start + pg_remaining - 1)

\* several chunks, the last one shorter than page_size
C28_Witness ==
    /\ pg_out # <<>>
    /\ Len(pg_out[1]) >= 2
    /\ LET last == pg_out[1][Len(pg_out[1])]
       IN last.end - last.start < pg_page_size
    /\ pg_base_start > 0

(***************************************************************************)
(* utils/parser.py: RootParser, ArxivParser and PaperParser on a feed.     *)
(* find() of a child gives <<>> (None) or <<element>>; an element has a    *)
(* text (<<>> for None), attributes and its identity in the document; a    *)
(* call either returns a value or raises an exception.                     *)
(***************************************************************************)

Element(ident, text, attrib) == [ident |-> ident, text |-> text, attrib |-> attrib]

Returned(v) == [raised |-> <<>>, value |-> <<v>>]
Raised(e) == [raised |-> <<e>>, value |-> <<>>]

\* an exception: its class, its message (in English here), the ordinal the
\* message names (0: none) and the exception it was raised from
Error(type, message, position, error) ==
    [type |-> type, message |-> message, position |-> position, error |-> error]

\* create_parser_exception(data, url, message, namespace, error)
create_parser_exception(message, position, error) ==
    Error("ParserException", IF message = "" THEN "failed to parse the response" ELSE message,
          position, error)

\* the value of each decimal digit
DigitValue == ("0" :> 0) @@ ("7" :> 7)

\* int(text) for a non-empty text of digits and other characters
RECURSIVE digits_value(_)
digits_value(chars) ==
    IF chars = <<>> THEN 0
    ELSE 10 * digits_value(SubSeq(chars, 1, Len(chars) - 1))
            + DigitValue[chars[Len(chars)]]

int(chars) ==
    IF chars # <<>> /\ \A i \in DOMAIN chars : chars[i] \in DOMAIN DigitValue
    THEN Returned(digits_value(chars))
    ELSE Raised(Error("ValueError", "invalid literal for int()", 0, <<>>))

\* RootParser.parse_total_result
parse_total_result(root) ==
    IF root.total = <<>> \/ root.total[1].text = <<>>
    THEN Raised(create_parser_exception("missing total results element", 0, <<>>))
    ELSE int(root.total[1].text[1])

\* RootParser.build_search_result
RootParser_build_search_result(root, query_params) ==
    LET total == parse_total_result(root)
    IN IF total.raised # <<>>
       THEN total
       ELSE Returned(SearchResult(<<>>, total.value[1], 1, FALSE, query_params,
                                  Metadata(0, None, 0, 0)))

\* get_or_raise of parse_basics_info
get_or_raise(entry, tag) ==
    LET sub_elem == entry[tag]
    IN IF sub_elem = <<>> \/ sub_elem[1].text = <<>>
       THEN Raised(create_parser_exception("missing element " \o tag, 0, <<>>))
       ELSE Returned(sub_elem[1].text[1])

\* get_text of parse_authors
get_text(sub_elem) == IF sub_elem # <<>> THEN sub_elem[1].text ELSE <<>>

Truthy(text) == text # <<>> /\ text[1] # ""

Author(name, affiliation) == [name |-> name, affiliation |-> affiliation]

\* PaperParser.parse_authors
parse_authors(entry) ==
    LET named == SelectSeq(entry.author, LAMBDA a : Truthy(get_text(a.name)))
        authors == [i \in DOMAIN named |->
                       Author(get_text(named[i].name)[1],
                              get_text(named[i].affiliation))]
    IN IF authors = <<>>
       THEN Raised(create_parser_exception("missing author", 0, <<>>))
       ELSE Returned(authors)

\* parse_primary of parse_categories
parse_primary(entry) ==
    LET primary_elem == entry.primary_category
    IN IF primary_elem = <<>> \/ "term" \notin DOMAIN primary_elem[1].attrib
       THEN "unknown"
       ELSE primary_elem[1].attrib["term"]

\* c != primary_elem: two elements are equal when they are the same element
Differs(c, primary_elem) ==
    primary_elem = <<>> \/ c.ident # primary_elem[1].ident

\* parse_secondary of parse_categories
parse_secondary(entry) ==
    LET kept == SelectSeq(entry.category,
                          LAMBDA c : "term" \in DOMAIN c.attrib
                                        /\ Differs(c, entry.primary_category))
    IN [i \in DOMAIN kept |-> kept[i].attrib["term"]]

\* PaperParser.parse_categories
parse_categories(entry) ==
    [primary |-> parse_primary(entry), secondary |-> parse_secondary(entry)]

\* the texts datetime.fromisoformat reads, and the instants they denote
IsoInstant == ("2024-01-01T00:00:00Z" :> 1) @@ ("2024-01-02T00:00:00Z" :> 2)

\* PaperParser.parse_datetime
parse_datetime(date_str) ==
    IF date_str \in DOMAIN IsoInstant
    THEN Returned(IsoInstant[date_str])
    ELSE Raised(Error("ValueError", "unexpected date format", 0, <<>>))

\* the first of the calls, in the order they are made, that raised
\* (0: none did)
FirstRaised(steps) ==
    IF \E i \in DOMAIN steps : steps[i].raised # <<>>
    THEN CHOOSE i \in DOMAIN steps :
            /\ steps[i].raised # <<>>
            /\ \A j \in 1..(i - 1) : steps[j].raised = <<>>
    ELSE 0

\* get_or_raise(entry, tag) handed to parse_datetime
get_datetime(entry, tag) ==
    LET text == get_or_raise(entry, tag)
    IN IF text.raised # <<>> THEN text ELSE parse_datetime(text.value[1])

\* PaperParser.parse_basics_info: the arguments of BasicInfo(...) are evaluated
\* in order; the id is the last "/"-separated part of the id text
parse_basics_info(entry) ==
    LET steps == <<get_or_raise(entry, "id"),
                   get_or_raise(entry, "title"),
                   get_or_raise(entry, "summary"),
                   parse_authors(entry),
                   Returned(parse_categories(entry)),
                   get_datetime(entry, "published"),
                   get_datetime(entry, "updated")>>
        failed == FirstRaised(steps)
    IN IF failed # 0
       THEN steps[failed]
       ELSE Returned([id |-> steps[1].value[1][Len(steps[1].value[1])],
                      title |-> steps[2].value[1],
                      summary |-> steps[3].value[1],
                      authors |-> steps[4].value[1],
                      categories |-> steps[5].value[1],
                      published |-> steps[6].value[1],
                      updated |-> steps[7].value[1]])

IsPdf(link) == "type" \in DOMAIN link.attrib /\ link.attrib["type"] = "application/pdf"

AnyLink(link) == TRUE

\* the links parse_pdf_url takes the href of the first of
PdfLink(link) == IsPdf(link)

\* PaperParser.parse_pdf_url: the href of the first link of type
\* application/pdf; a KeyError is raised again as a parser exception
parse_pdf_url(entry) ==
    LET links == entry.link
        pdf == SelectSeq(links, PdfLink)
    IN IF links = <<>> \/ pdf = <<>>
       THEN Returned(<<>>)
       ELSE IF "href" \notin DOMAIN pdf[1].attrib
            THEN Raised(create_parser_exception(
                            "", 0, <<Error("KeyError", "href", 0, <<>>)>>))
            ELSE Returned(<<pdf[1].attrib["href"]>>)

\* PaperParser.parse_optional_fields
parse_optional_fields(entry) ==
    [k \in {"comment", "journal_ref", "doi"} |->
        IF entry[k] # <<>> THEN entry[k][1].text ELSE <<>>]

\* the texts that match the DOI pattern of Paper.validate_doi
DoiPattern == {"10.1234/test.123"}

\* Paper.validate_doi
validate_doi(v) == v = <<>> \/ v[1] \in DoiPattern

\* ArxivParser.build_paper
build_paper(data) ==
    LET basic_info == parse_basics_info(data)
        pdf_url == parse_pdf_url(data)
        optional == parse_optional_fields(data)
    IN IF basic_info.raised # <<>> THEN basic_info
       ELSE IF pdf_url.raised # <<>> THEN pdf_url
       ELSE IF ~validate_doi(optional["doi"])
            THEN Raised(Error("ValidationError", "Invalid DOI format", 0, <<>>))
       ELSE Returned([info |-> basic_info.value[1],
                      pdf_url |-> pdf_url.value[1],
                      comment |-> optional["comment"],
                      journal_ref |-> optional["journal_ref"],
                      doi |-> optional["doi"]])

parse_root_skipping(entries) ==
    LET built == [i \in DOMAIN entries |-> build_paper(entries[i])]
        good == SelectSeq(built, LAMBDA b : b.raised = <<>>)
    IN Returned([i \in DOMAIN good |-> good[i].value[1]])

\* ArxivParser._parse_root: the papers of all entries, or for the first entry
\* that cannot be built a parser exception naming its position
parse_root(entries) ==
    LET built == [i \in DOMAIN entries |-> build_paper(entries[i])]
        failed == FirstRaised(built)
    IN IF failed # 0
       THEN Raised(create_parser_exception("failed to parse paper {i + 1}", failed,
                                           built[failed].raised))
       ELSE Returned([i \in DOMAIN built |-> built[i].value[1]])

\* ArxivParser.parse_feed: parser exceptions pass through
parse_feed(root) == parse_root(root.entries)

(***************************************************************************)
(* The parsers on feeds: the total-results element, the required fields,   *)
(* the optional fields and links, and the categories of an entry are       *)
(* varied one group at a time.                                             *)
(***************************************************************************)

\* an element without attributes
Plain == <<>>

\* the text of an id element, cut at its "/" characters
IdText == <<"http:", "", "arxiv.org", "abs", "2401.00001v1">>

CategoryScheme == "scheme" :> "http://arxiv.org/schemas/atom"

NamedAuthor ==
    [name |-> <<Element(6, <<"Ada">>, Plain)>>, affiliation |-> <<>>]

UnnamedAuthor ==
    [name |-> <<>>, affiliation |-> <<Element(7, <<"MIT">>, Plain)>>]

\* an entry with every required field, one category and no optional field
GoodEntry ==
    [id |-> <<Element(1, <<IdText>>, Plain)>>,
     title |-> <<Element(2, <<"title">>, Plain)>>,
     summary |-> <<Element(3, <<"summary">>, Plain)>>,
     published |-> <<Element(4, <<"2024-01-01T00:00:00Z">>, Plain)>>,
     updated |-> <<Element(5, <<"2024-01-02T00:00:00Z">>, Plain)>>,
     author |-> <<NamedAuthor>>,
     primary_category |-> <<Element(10, <<>>, CategoryScheme @@ ("term" :> "cs.AI"))>>,
     category |-> <<Element(11, <<>>, CategoryScheme @@ ("term" :> "cs.AI"))>>,
     link |-> <<>>,
     comment |-> <<>>,
     journal_ref |-> <<>>,
     doi |-> <<>>]

Required == {"id", "title", "summary", "published", "updated"}

\* entries that lack a required field, have it empty, have no named author or
\* carry a date that is no ISO date
EntryKinds ==
    {GoodEntry}
        \cup {[GoodEntry EXCEPT ![f] = <<>>] : f \in Required}
        \cup {[GoodEntry EXCEPT !.title = <<Element(2, <<>>, Plain)>>],
              [GoodEntry EXCEPT !.author = <<>>],
              [GoodEntry EXCEPT !.author = <<UnnamedAuthor>>],
              [GoodEntry EXCEPT !.author = <<UnnamedAuthor, NamedAuthor>>],
              [GoodEntry EXCEPT !.published = <<Element(4, <<"yesterday">>, Plain)>>]}

TotalChars == {"0", "7", "x"}

GoodTotal == <<Element(0, <<<<"7">>>>, Plain)>>

OptionalKinds(ident, texts) ==
    {<<>>, <<Element(ident, <<>>, Plain)>>}
        \cup {<<Element(ident, <<t>>, Plain)>> : t \in texts}

LinkAttribs ==
    {("rel" :> "alternate") @@ ("type" :> "text/html") @@ ("href" :> "http://arxiv.org/abs/1"),
     ("rel" :> "related") @@ ("type" :> "application/pdf") @@ ("href" :> "http://arxiv.org/pdf/1"),
     ("rel" :> "related") @@ ("type" :> "application/pdf") @@ ("href" :> "http://arxiv.org/pdf/2"),
     ("rel" :> "related") @@ ("href" :> "http://dx.doi.org/1"),
     ("rel" :> "related") @@ ("type" :> "application/pdf")}

CategoryAttribs ==
    {CategoryScheme,
     CategoryScheme @@ ("term" :> "cs.AI"),
     CategoryScheme @@ ("term" :> "cs.LG")}

\* the elements of a tag, in document order
Elements(first, attribs) ==
    [i \in DOMAIN attribs |-> Element(first + i - 1, <<>>, attribs[i])]

InitParser ==
    /\ IdleLimiter
    /\ IdleSearch
    /\ IdleAggregate
    /\ IdleSession
    /\ IdlePages
    /\ IdleDownload
    /\ papers_out = <<>>
    /\ total_out = <<>>
    /\ \/ \E total \in {<<>>, <<Element(0, <<>>, Plain)>>}
                        \cup {<<Element(0, <<chars>>, Plain)>> :
                                 chars \in SeqsUpTo(TotalChars, MaxDigits) \ {<<>>}},
             entries \in {<<>>, <<GoodEntry>>} :
             feed = [total |-> total, entries |-> entries]
       \/ \E entries \in SeqsUpTo(EntryKinds, MaxEntries) \ {<<>>} :
             feed = [total |-> GoodTotal, entries |-> entries]
       \/ \E comment \in OptionalKinds(30, {"5 pages"}),
             journal_ref \in OptionalKinds(31, {"J. 1 (2024)"}),
             doi \in OptionalKinds(32, {"10.1234/test.123", "11.1234/test.123"}),
             links \in SeqsUpTo(LinkAttribs, MaxLinks) :
             feed = [total |-> GoodTotal,
                     entries |-> <<[GoodEntry EXCEPT !.comment = comment,
                                                     !.journal_ref = journal_ref,
                                                     !.doi = doi,
                                                     !.link = Elements(20, links)]>>]
       \/ \E primary \in {<<>>} \cup {<<Element(10, <<>>, a)>> : a \in CategoryAttribs},
             categories \in SeqsUpTo(CategoryAttribs, MaxCategories) :
             feed = [total |-> GoodTotal,
                     entries |-> <<[GoodEntry EXCEPT
                                       !.primary_category = primary,
                                       !.category = Elements(11, categories)]>>]

\* ArxivParser(text, response).parse_feed()
ParseFeed ==
    /\ papers_out = <<>>
    /\ papers_out' = <<parse_feed(feed)>>
    /\ UNCHANGED <<feed, total_out>>
    /\ UNCHANGED <<limiterVars, searchVars, aggVars, sessionVars, pageVars, downloadVars>>

\* RootParser(text).build_search_result(params)
BuildSearchResult ==
    /\ total_out = <<>>
    /\ total_out' = <<RootParser_build_search_result(
                          feed, SearchParamsFull("q", <<>>, 0, 1, <<>>, <<>>))>>
    /\ UNCHANGED <<feed, papers_out>>
    /\ UNCHANGED <<limiterVars, searchVars, aggVars, sessionVars, pageVars, downloadVars>>

NextParser ==
    \/ ParseFeed
    \/ BuildSearchResult

SpecParser == InitParser /\ [][NextParser]_vars

(***************************************************************************)
(* Claims about the parsers (checked under SpecParser)                     *)
(***************************************************************************)

\* the total-results element is absent, empty or holds text that is no integer
NoTotal ==
    \/ feed.total = <<>>
    \/ feed.total[1].text = <<>>
    \/ \E i \in DOMAIN feed.total[1].text[1] : feed.total[1].text[1][i] = "x"

\* C21: building a search result from a feed whose total-results element is
\* absent, empty or holds non-integer text raises a parser exception and gives
\* no result.
C21_TotalParseError ==
    (total_out # <<>> /\ NoTotal)
        => /\ total_out[1].value = <<>>
           /\ total_out[1].raised # <<>>
           /\ total_out[1].raised[1].type = "ParserException"

\* the entry lacks a required field or has no author with a name
Lacks(entry) ==
    \/ \E f \in Required : entry[f] = <<>> \/ entry[f][1].text = <<>>
    \/ \A i \in DOMAIN entry.author :
          \/ entry.author[i].name = <<>>
          \/ entry.author[i].name[1].text \in {<<>>, <<"">>}

\* the entry has its required fields and its dates are ISO dates
Sound(entry) ==
    /\ ~Lacks(entry)
    /\ entry.published[1].text[1] # "yesterday"
    /\ entry.updated[1].text[1] # "yesterday"

\* C22: an entry lacking id, title, summary, published, updated or a named
\* author cannot be built: a parser exception is raised; parsing a feed with
\* such an entry raises a parser exception and returns no papers, and the
\* exception names the position of that entry when the entries before it are
\* sound.
C22_RequiredFields ==
    papers_out # <<>>
        => \A i \in DOMAIN feed.entries :
              Lacks(feed.entries[i])
                 => /\ build_paper(feed.entries[i]).raised # <<>>
                    /\ build_paper(feed.entries[i]).raised[1].type = "ParserException"
                    /\ papers_out[1].value = <<>>
                    /\ papers_out[1].raised # <<>>
                    /\ papers_out[1].raised[1].type = "ParserException"
                    /\ papers_out[1].raised[1].position \in 1..i
                    /\ (\A j \in 1..(i - 1) : Sound(feed.entries[j]))
                          => papers_out[1].raised[1].position = i

\* a feed whose second entry lacks a field was parsed: the exception names
\* position 2 and the first entry's paper is not returned
C22_Witness ==
    /\ papers_out # <<>>
    /\ Len(feed.entries) = 2
    /\ Sound(feed.entries[1])
    /\ Lacks(feed.entries[2])
    /\ papers_out[1].raised # <<>>
    /\ papers_out[1].raised[1].position = 2

\* the text of an optional element (None when the element is absent)
TextOf(child) == IF child = <<>> THEN <<>> ELSE child[1].text

\* the links of type application/pdf
PdfLinks(entry) ==
    SelectSeq(entry.link, LAMBDA l : "type" \in DOMAIN l.attrib
                                        /\ l.attrib["type"] = "application/pdf")

\* the entry's DOI, when present, is well-formed and its PDF links have a
\* target
WellFormedOptionals(entry) ==
    /\ TextOf(entry.doi) \in {<<>>, <<"10.1234/test.123">>}
    /\ \A i \in DOMAIN entry.link :
          "type" \in DOMAIN entry.link[i].attrib => "href" \in DOMAIN entry.link[i].attrib

\* C23: an entry with all required fields is parsed without error whichever
\* of DOI, journal reference, comment and PDF link are absent; an absent field
\* is None in the paper, a present one keeps its text, and the PDF URL is the
\* target of a link of type application/pdf, None when there is none.
C23_OptionalFields ==
    (papers_out # <<>> /\ Len(feed.entries) = 1
        /\ Sound(feed.entries[1]) /\ WellFormedOptionals(feed.entries[1]))
        => LET entry == feed.entries[1]
           IN /\ papers_out[1].raised = <<>>
              /\ Len(papers_out[1].value[1]) = 1
              /\ LET paper == papers_out[1].value[1][1]
                 IN /\ paper.doi = TextOf(entry.doi)
                    /\ paper.journal_ref = TextOf(entry.journal_ref)
                    /\ paper.comment = TextOf(entry.comment)
                    /\ IF PdfLinks(entry) = <<>>
                       THEN paper.pdf_url = <<>>
                       ELSE paper.pdf_url = <<PdfLinks(entry)[1].attrib["href"]>>

\* an entry with a comment, without DOI and journal reference, whose second
\* link is the PDF link, was parsed
C23_Witness ==
    /\ papers_out # <<>>
    /\ Len(feed.entries) = 1
    /\ WellFormedOptionals(feed.entries[1])
    /\ feed.entries[1].doi = <<>>
    /\ feed.entries[1].journal_ref = <<>>
    /\ TextOf(feed.entries[1].comment) # <<>>
    /\ Len(feed.entries[1].link) = 2
    /\ Len(PdfLinks(feed.entries[1])) = 1
    /\ "type" \in DOMAIN feed.entries[1].link[1].attrib
    /\ papers_out[1].raised = <<>>
    /\ papers_out[1].value[1][1].pdf_url = <<"http://arxiv.org/pdf/1">>

\* the term of the entry's primary-category element ("unknown" without one)
PrimaryTerm(entry) ==
    IF entry.primary_category # <<>>
          /\ "term" \in DOMAIN entry.primary_category[1].attrib
    THEN entry.primary_category[1].attrib["term"]
    ELSE "unknown"

\* the terms of the category elements that differ from the primary's term
OtherTerms(entry) ==
    LET termed == SelectSeq(entry.category,
                            LAMBDA c : "term" \in DOMAIN c.attrib
                                          /\ c.attrib["term"] # PrimaryTerm(entry))
    IN [i \in DOMAIN termed |-> termed[i].attrib["term"]]

\* C24: the secondary categories of a parsed entry are exactly the terms of
\* its category elements that differ from the primary's term, the primary's
\* term is not among them, and without a usable primary-category element the
\* primary term is "unknown".
C24_SecondaryCategories ==
    (papers_out # <<>> /\ papers_out[1].raised = <<>>)
        => \A i \in DOMAIN feed.entries :
              LET categories == papers_out[1].value[1][i].info.categories
              IN /\ categories.primary = PrimaryTerm(feed.entries[i])
                 /\ categories.secondary = OtherTerms(feed.entries[i])
                 /\ \A k \in DOMAIN categories.secondary :
                       categories.secondary[k] # categories.primary

(***************************************************************************)
(* client/downloader.py: ArxivDownloader.batch_download on the papers of a *)
(* search result; every paper with a PDF URL is downloaded by a task       *)
(* running _download_with_context, which calls download_paper under        *)
(* @retry(stop=stop_after_attempt(3), retry_error_callback=                *)
(* log_retry_attempt).                                                     *)
(***************************************************************************)

\* DownloadTracker(total)
DownloadTracker(total) ==
    [total |-> total, completed |-> 0, failed |-> 0, failed_papers |-> <<>>,
     ended |-> FALSE]

\* DownloadTracker.add_failed
add_failed(tracker, paper, error) ==
    [tracker EXCEPT !.failed = @ + 1,
                    !.failed_papers = Append(@, <<paper, error>>)]

\* DownloadTracker.add_completed
add_completed(tracker) == [tracker EXCEPT !.completed = @ + 1]

\* what makes an attempt fail: no response, or a status other than 200
DownloadFailures == {"ClientError", "HTTP status 404"}

\* raise PaperDownloadException(...) from e
PaperDownloadException(e) == "PaperDownloadException: " \o e

\* log_retry_attempt(retry_state): logs and returns None
log_retry_attempt == "None"

\* the retry wrapper when the stop condition holds after a failed attempt:
\* with a retry_error_callback the call returns what the callback returns
retry_error_callback == <<log_retry_attempt>>

\* the papers without PDF URL, in order, each recorded as failed
RECURSIVE FailMissingUrls(_, _, _)
FailMissingUrls(tracker, papers, i) ==
    IF i > Len(papers) THEN tracker
    ELSE FailMissingUrls(IF papers[i].pdf_url = <<>>
                         THEN add_failed(tracker, i, "ValueError: No PDF URL available")
                         ELSE tracker,
                         papers, i + 1)

InitDownload ==
    /\ IdleLimiter
    /\ IdleSearch
    /\ IdleAggregate
    /\ IdleSession
    /\ IdlePages
    /\ IdleParser
    /\ dl_papers \in SeqsUpTo({[pdf_url |-> <<>>], [pdf_url |-> <<"http://arxiv.org/pdf/1">>]},
                               MaxBatch)
    /\ dl_tasks = <<>>
    /\ context = <<>>
    /\ dl_pc = "idle"

\* batch_download up to its gather: the tracker, a task per paper with a PDF
\* URL, add_failed for the others
BatchDownload ==
    /\ dl_pc = "idle"
    /\ dl_pc' = "gathering"
    /\ context' = <<FailMissingUrls(DownloadTracker(Len(dl_papers)), dl_papers, 1)>>
    /\ dl_tasks' = [i \in DOMAIN dl_papers |->
                       [state |-> IF dl_papers[i].pdf_url = <<>>
                                  THEN "no_url" ELSE "running",
                        attempts |-> 0, stored |-> FALSE, returned |-> <<>>,
                        error |-> <<>>]]
    /\ UNCHANGED dl_papers
    /\ UNCHANGED <<limiterVars, searchVars, aggVars, sessionVars, pageVars, parserVars>>

\* an attempt of download_paper answers 200 and the PDF is written and
\* renamed: download_paper returns None and the task records add_completed
AttemptSucceeds(i) ==
    /\ dl_pc = "gathering"
    /\ dl_tasks[i].state = "running"
    /\ dl_tasks[i].attempts < MaxAttempts
    /\ dl_tasks' = [dl_tasks EXCEPT ![i] =
                       [@ EXCEPT !.state = "returned",
                                 !.attempts = @ + 1,
                                 !.stored = TRUE,
                                 !.returned = <<"None">>]]
    /\ context' = <<add_completed(context[1])>>
    /\ UNCHANGED <<dl_papers, dl_pc>>
    /\ UNCHANGED <<limiterVars, searchVars, aggVars, sessionVars, pageVars, parserVars>>

\* an attempt of download_paper fails: the body raises
\* PaperDownloadException; before the third attempt the wrapper waits and
\* tries again, after it the wrapper hands the call to retry_error_callback
\* and returns its result; _download_with_context records add_completed for a
\* return
AttemptFails(i, e) ==
    /\ dl_pc = "gathering"
    /\ dl_tasks[i].state = "running"
    /\ dl_tasks[i].attempts < MaxAttempts
    /\ LET attempt_number == dl_tasks[i].attempts + 1
           failed == [dl_tasks[i] EXCEPT !.attempts = attempt_number,
                                         !.error = <<PaperDownloadException(e)>>]
       IN IF attempt_number < MaxAttempts
          THEN /\ dl_tasks' = [dl_tasks EXCEPT ![i] = failed]
               /\ UNCHANGED context
          ELSE /\ dl_tasks' = [dl_tasks EXCEPT ![i] =
                                 [failed EXCEPT !.state = "returned",
                                                !.returned = retry_error_callback]]
               /\ context' = <<add_completed(context[1])>>
    /\ UNCHANGED <<dl_papers, dl_pc>>
    /\ UNCHANGED <<limiterVars, searchVars, aggVars, sessionVars, pageVars, parserVars>>

\* gather is done: batch_download sets end_time and returns the tracker
BatchReturns ==
    /\ dl_pc = "gathering"
    /\ \A i \in DOMAIN dl_tasks : dl_tasks[i].state # "running"
    /\ dl_pc' = "returned"
    /\ context' = <<[context[1] EXCEPT !.ended = TRUE]>>
    /\ UNCHANGED <<dl_papers, dl_tasks>>
    /\ UNCHANGED <<limiterVars, searchVars, aggVars, sessionVars, pageVars, parserVars>>

NextDownload ==
    \/ BatchDownload
    \/ \E i \in DOMAIN dl_tasks : AttemptSucceeds(i)
    \/ \E i \in DOMAIN dl_tasks, e \in DownloadFailures : AttemptFails(i, e)
    \/ BatchReturns

SpecDownload == InitDownload /\ [][NextDownload]_vars

\* C26: download_paper makes at most 3 attempts for a paper, it returns only
\* when the paper's PDF was stored, and when every attempt failed it has
\* raised PaperDownloadException.
C26_DownloadRaises ==
    \A i \in DOMAIN dl_tasks :
        /\ dl_tasks[i].attempts <= MaxAttempts
        /\ dl_tasks[i].state = "returned" => dl_tasks[i].stored
        /\ (dl_tasks[i].attempts = MaxAttempts /\ ~dl_tasks[i].stored)
              => /\ dl_tasks[i].state = "raised"
                 /\ dl_tasks[i].error # <<>>
                 /\ dl_tasks[i].error[1] \in
                       {PaperDownloadException(e) : e \in DownloadFailures}

\* the papers the tracker lists as failed
ListedFailed == {context[1].failed_papers[k][1] : k \in DOMAIN context[1].failed_papers}

\* C40: when batch_download has returned, completed + failed = total,
\* completed counts the papers whose PDF was stored, and every paper without
\* PDF URL or whose attempts all failed is counted in failed and listed in
\* failed_papers; the batch returns whatever happened to single papers.
C40_TrackerCounts ==
    /\ dl_pc = "returned"
          => /\ context[1].completed + context[1].failed = context[1].total
             /\ context[1].completed
                   = Cardinality({i \in DOMAIN dl_tasks : dl_tasks[i].stored})
             /\ context[1].failed = Len(context[1].failed_papers)
             /\ \A i \in DOMAIN dl_tasks :
                   (dl_papers[i].pdf_url = <<>>
                       \/ (dl_tasks[i].attempts = MaxAttempts /\ ~dl_tasks[i].stored))
                      => i \in ListedFailed
    /\ dl_pc # "raised"

(***************************************************************************)
(* Further claims about the rate limiter (checked under SpecLimiter)       *)
(***************************************************************************)

\* C39: the window holds at most `calls` timestamps, in non-decreasing order,
\* and from each admission on every timestamp in it is newer than the
\* admission time minus `period`.
C39_WindowInvariant ==
    /\ Len(timestamps) <= calls
    /\ \A i, j \in DOMAIN timestamps : i < j => timestamps[i] <= timestamps[j]
    /\ admissions # <<>>
          => \A k \in DOMAIN timestamps :
                timestamps[k] > admissions[Len(admissions)] - period

\* C38: every caller of a rate-limited function is eventually admitted: it
\* records its timestamp and the wrapped function starts; no caller stays at
\* the semaphore, at the lock or asleep forever.
C38_EventuallyAdmitted ==
    \A p \in Callers :
        (pc[p] \in {"wait_sem", "wait_lock", "sleeping"})
            ~> (\E k \in DOMAIN admitted_by : admitted_by[k] = p)

\* all callers have been admitted, the last of them after a sleep
C38_Witness ==
    /\ Len(admissions) = NumCallers
    /\ \A p \in Callers : \E k \in DOMAIN admitted_by : admitted_by[k] = p
    /\ admissions[NumCallers] >= admissions[1] + period

(***************************************************************************)
(* Claims about the paging of ArxivClient.search and about its downloader  *)
(* (checked under Spec)                                                    *)
(***************************************************************************)

Received == Len(first_page[1].papers)

Remaining ==
    Min(max_results - Received, first_page[1].total_result - Received)

\* the least number of pages of page_size that hold Remaining papers
ExpectedPages ==
    IF first_page[1].total_result <= Received \/ max_results <= Received \/ Remaining <= 0
    THEN 0
    ELSE CHOOSE n \in 1..Remaining :
            (n - 1) * page_size < Remaining /\ Remaining <= n * page_size

\* C25: with the downloader enabled a search that returns has handed its final
\* result to the downloader exactly once; with the downloader disabled nothing
\* is ever handed to it and download_search_result returns None.
C25_DownloadOnResult ==
    /\ (enable_downloader /\ spc = "returned") => download_calls = result
    /\ ~enable_downloader
          => (download_calls = <<>> /\ download_out \in {<<>>, <<"None">>})

\* C27: with max_results given, a search creates, and by its return has
\* requested, as many additional pages as the remaining papers need: none when
\* the total or max_results is at most the papers received.
C27_AdditionalRequests ==
    (first_page # <<>> /\ max_results # None)
        => /\ Len(tasks) = ExpectedPages
           /\ spc = "returned"
                 => Cardinality({i \in DOMAIN tasks : tasks[i].attempts = 1})
                       = ExpectedPages

\* a search returned after one additional page, the number the total allowed
\* and fewer than max_results asked for
C27_Witness ==
    /\ spc = "returned"
    /\ first_page # <<>>
    /\ Len(tasks) = 1
    /\ tasks[1].attempts = 1
    /\ page_size = 1
    /\ Received = 1
    /\ first_page[1].total_result = 2
    /\ max_results = 3

\* C29: the first additional chunk starts where the first page's request ends,
\* at start + min(page size, max_results), and every further chunk starts where
\* the one before it ends.
C29_ContiguousOffsets ==
    tasks # <<>>
        => /\ tasks[1].params.start = first_req[1].start + first_req[1].max_results
           /\ \A i \in 1..(Len(tasks) - 1) :
                 tasks[i + 1].params.start
                    = tasks[i].params.start + tasks[i].params.max_results

\* C30: a first page without papers ends the search: no additional page is
\* created or requested.
C30_EmptyPageStops ==
    (first_page # <<>> /\ first_page[1].papers = <<>>) => tasks = <<>>

\* what a request carries besides start and max_results
QueryOf(req) == [k \in DOMAIN req \ {"start", "max_results"} |-> req[k]]

\* C31: every additional-page request carries the search_query, id_list,
\* sortBy and sortOrder of the first-page request; only start and max_results
\* differ.
C31_SameQuery ==
    \A k \in DOMAIN OutboundRequests :
        QueryOf(OutboundRequests[k]) = QueryOf(OutboundRequests[1])

\* C32: a failure to build the parameters of a page's request is raised as
\* QueryBuildError, and no request is issued for that page.
C32_BuildFailure ==
    first_error = "build"
        => /\ raised # <<>>
           /\ raised[1].type = "QueryBuildError"
           /\ IssuedRequests = <<>>

\* the k-th of the additional pages that succeeded, by the offset asked for
KthOk(k) ==
    CHOOSE i \in OkTasks :
        Cardinality({j \in OkTasks : tasks[j].params.start < tasks[i].params.start})
           = k - 1

\* the aggregate of the first page and the pages that succeeded, taken by
\* offset
ByOffset ==
    aggregate_search_results(
        <<first_page[1]>> \o [k \in 1..Cardinality(OkTasks) |-> tasks[KthOk(k)].result[1]])

\* C34: the papers (content and order), total_result, page and has_next that a
\* search with additional pages returns are those of the responses taken by
\* page offset, whatever the order in which the pages completed.
C34_CompletionOrder ==
    (spc = "returned" /\ tasks # <<>>)
        => /\ ByOffset.ok
           /\ result[1].papers = ByOffset.value.papers
           /\ result[1].total_result = ByOffset.value.total_result
           /\ result[1].page = ByOffset.value.page
           /\ result[1].has_next = ByOffset.value.has_next

\* a search returned whose second additional page completed before its first,
\* both with papers
C34_Witness ==
    /\ spc = "returned"
    /\ Len(tasks) = 2
    /\ OkTasks = {1, 2}
    /\ tasks[2].finished < tasks[1].finished
    /\ tasks[1].result[1].papers # <<>>
    /\ tasks[2].result[1].papers # <<>>

\* C36: a search without max_results issues the first-page request and no
\* other, and what it returns is the first page.
C36_SinglePage ==
    max_results = None
        => /\ tasks = <<>>
           /\ Len(IssuedRequests) <= 1
           /\ spc = "returned"
                 => (Len(IssuedRequests) = 1 /\ result = first_page)

\* a search without max_results returned a page that holds fewer papers than
\* the total the server reported
C36_Witness ==
    /\ max_results = None
    /\ spc = "returned"
    /\ result # <<>>
    /\ result[1].total_result > Len(result[1].papers)
    /\ Len(result[1].papers) > 0

====
